---- MODULE Spec2Model ----
(***************************************************************************)
(* Membership store of the Semaphore OAuth demo (lib/semaphore/group.js).  *)
(* The repository holds the store in several variants:                     *)
(*   J  group.js lines 1-280   : group.json, normalisation, plaintext      *)
(*                               migration on read                         *)
(*   E  group.js lines 281-579 : group.encrypted + group.backup.encrypted  *)
(*   P  the fs/promises store  : plain group.json, awaited file I/O        *)
(* JavaScript objects and arrays are modelled as a heap (object identity   *)
(* matters: DEFAULT_GROUP is a module-level object that the code hands     *)
(* out and mutates).  The identity derivation, the identity endpoints, the *)
(* encryption library, the sealing of records, the page, the rate limiter, *)
(* the route wrappers and the session tracker follow the store; their      *)
(* state is sec.                                                           *)
(***************************************************************************)
EXTENDS Integers, Sequences, FiniteSets, TLC

VARIABLES variant, mem, files, now, env, tasks, last, sec

vars == <<variant, mem, files, now, env, tasks, last, sec>>

-----------------------------------------------------------------------------
(* Bounds of the model *)

MaxMembers == 2
MaxTicks == 1
MaxTamper == 1
MaxFailAt == 4
MaxClock == 1
MaxDeploys == 1
MaxStarts == 2
MaxCalls == 2
MaxReqs == 2
MaxNow == 3
MaxOver == 1
MaxHits == 4
MaxWaits == 3

-----------------------------------------------------------------------------
(* Strings are sequences of one-character strings *)

S42 == <<"4", "2">>
S42sp == <<" ", "4", "2">>
S042 == <<"0", "4", "2">>
S7 == <<"7">>
SEmpty == <<>>
SBad == <<"x">>

(* commitments the request validation lets through, and all inputs *)
ValidCommitments == {S42, S42sp, S7}
Commitments == {S42, S42sp, SEmpty, SBad}

IsSpace(c) == c = " "

RECURSIVE TrimStart(_)
TrimStart(s) ==
  IF Len(s) > 0 /\ IsSpace(Head(s)) THEN TrimStart(Tail(s)) ELSE s

RECURSIVE TrimEnd(_)
TrimEnd(s) ==
  IF Len(s) > 0 /\ IsSpace(s[Len(s)]) THEN TrimEnd(SubSeq(s, 1, Len(s) - 1)) ELSE s

Trim(s) == TrimEnd(TrimStart(s))

DigitChars == {"0", "1", "2", "3", "4", "5", "6", "7", "8", "9"}

DigitVal(c) ==
  CASE c = "0" -> 0 [] c = "1" -> 1 [] c = "2" -> 2 [] c = "3" -> 3
    [] c = "4" -> 4 [] c = "5" -> 5 [] c = "6" -> 6 [] c = "7" -> 7
    [] c = "8" -> 8 [] OTHER -> 9

RECURSIVE DigitsValue(_, _)
DigitsValue(s, acc) ==
  IF Len(s) = 0 THEN acc ELSE DigitsValue(Tail(s), acc * 10 + DigitVal(Head(s)))

(* BigInt(string): surrounding white space is ignored, the empty string is
   0n, a string of decimal digits is its value, anything else is a
   SyntaxError *)
BigIntOf(s) ==
  LET t == Trim(s) IN
  IF \A i \in 1..Len(t) : t[i] \in DigitChars
  THEN [ok |-> TRUE, v |-> DigitsValue(t, 0)]
  ELSE [ok |-> FALSE, v |-> 0]

MapBigInt(ss) == [i \in 1..Len(ss) |-> BigIntOf(ss[i]).v]

AllBigInt(ss) == \A i \in 1..Len(ss) : BigIntOf(ss[i]).ok

-----------------------------------------------------------------------------
(* The external Merkle root: an uninterpreted injective function of the
   group id, the tree depth and the ordered leaves *)

NullRoot == [gid |-> 0, depth |-> 0, leaves |-> <<>>]

(* new Group(id, treeDepth, members).root ; 0 stands for undefined: the
   library hashes the id and throws on an undefined one, and takes its own
   default depth for an undefined depth.  First a library that would build
   a group for an undefined id as well. *)
GroupRoot_anyId(id, treeDepth, leaves) ==
  [ok |-> TRUE, root |-> [gid |-> id, depth |-> treeDepth, leaves |-> leaves]]

GroupRoot(id, treeDepth, leaves) ==
  IF id = 0
  THEN [ok |-> FALSE, root |-> NullRoot]
  ELSE [ok |-> TRUE, root |-> [gid |-> id, depth |-> treeDepth, leaves |-> leaves]]

(* new Group(id, treeDepth, members.map(BigInt)).root *)
GroupOfMembers(id, treeDepth, members) ==
  IF AllBigInt(members)
  THEN GroupRoot(id, treeDepth, MapBigInt(members))
  ELSE [ok |-> FALSE, root |-> NullRoot]

-----------------------------------------------------------------------------
(* Heap of one process: objects {id, treeDepth, members, root} and arrays.
   Object 0 is DEFAULT_GROUP.  NoRef is null / undefined / not an array. *)

NoRef == -1

SetMin(S) == CHOOSE x \in S : \A y \in S : x <= y

FreshId(used) == SetMin({i \in 0..Cardinality(used) : i \notin used})

AllocArr(m, s) ==
  LET i == FreshId(DOMAIN m.a) IN
  [m |-> [m EXCEPT !.a = (i :> s) @@ m.a], ref |-> i]

AllocObj(m, ob) ==
  LET i == FreshId(DOMAIN m.o) IN
  [m |-> [m EXCEPT !.o = (i :> ob) @@ m.o], ref |-> i]

Res(m, exc, ret) == [m |-> m, exc |-> exc, ret |-> ret]

MembersOf(m, oid) ==
  IF m.o[oid].members = NoRef THEN <<>> ELSE m.a[m.o[oid].members]

-----------------------------------------------------------------------------
(* JSON values and file contents *)

JObj(id, treeDepth, hasMembers, members, root) ==
  [obj |-> TRUE, id |-> id, treeDepth |-> treeDepth, hasMembers |-> hasMembers,
   members |-> members, root |-> root]

JNull == [obj |-> FALSE, id |-> 0, treeDepth |-> 0, hasMembers |-> FALSE,
          members |-> <<>>, root |-> NullRoot]

(* an object without any of the group's fields, such as a parsed cipher blob *)
JBlank == JObj(0, 0, FALSE, <<>>, NullRoot)

Absent == [kind |-> "absent", key |-> "", intact |-> FALSE, data |-> JNull]
Garbage == [kind |-> "garbage", key |-> "", intact |-> FALSE, data |-> JNull]
PlainFile(jv) == [kind |-> "plain", key |-> "", intact |-> FALSE, data |-> jv]
EncFile(k, jv) == [kind |-> "enc", key |-> k, intact |-> TRUE, data |-> jv]

(* JSON.stringify(object) *)
ToJSON(m, oid) ==
  JObj(m.o[oid].id, m.o[oid].treeDepth, m.o[oid].members # NoRef,
       MembersOf(m, oid), m.o[oid].root)

(* JSON.parse(text): a fresh object with a fresh array *)
FromJSON(m, jv) ==
  LET Obj(ar) == AllocObj(ar.m, [id |-> jv.id, treeDepth |-> jv.treeDepth,
                                 members |-> ar.ref, root |-> jv.root])
  IN IF ~jv.obj THEN [m |-> m, ref |-> NoRef]
     ELSE Obj(IF jv.hasMembers THEN AllocArr(m, jv.members)
              ELSE [m |-> m, ref |-> NoRef])

(* fs.unlinkSync / writeFileSync / copyFileSync: the failAt-th mutation of
   the file system in this call throws *)
FsMut(m, path, content) ==
  IF m.io + 1 = m.failAt
  THEN Res([m EXCEPT !.io = @ + 1], TRUE, NoRef)
  ELSE Res([m EXCEPT !.io = @ + 1, !.files[path] = content], FALSE, NoRef)

(* if (fs.existsSync(path)) fs.unlinkSync(path) *)
unlinkIfExists(m, path) ==
  IF m.files[path].kind # "absent" THEN FsMut(m, path, Absent)
  ELSE Res(m, FALSE, NoRef)

Key == "k1"
OtherKey == "k2"

(* encryptToFile(filePath, data); first a writer whose write never reaches
   the file *)
encryptToFile_dropped(m, path, oid) ==
  Res(m, FALSE, NoRef)

encryptToFile(m, path, oid) ==
  IF m.encFail THEN Res([m EXCEPT !.encTried = TRUE], TRUE, NoRef)
  ELSE FsMut(m, path, EncFile(m.key, ToJSON(m, oid)))

(* decryptFromFile(filePath): ret is the parsed JSON value *)
decryptFromFile(m, path) ==
  IF m.files[path].kind = "enc" /\ m.files[path].key = m.key /\ m.files[path].intact
  THEN [exc |-> FALSE, ret |-> m.files[path].data]
  ELSE [exc |-> TRUE, ret |-> JNull]

(* JSON.parse(fs.readFileSync(path, 'utf8')) *)
parsePlain(m, path) ==
  CASE m.files[path].kind = "plain" -> [exc |-> FALSE, ret |-> m.files[path].data]
    [] m.files[path].kind = "enc" -> [exc |-> FALSE, ret |-> JBlank]
    [] OTHER -> [exc |-> TRUE, ret |-> JNull]

-----------------------------------------------------------------------------
(* Variant J: group.js lines 1-280.  The steps of a function are local
   operators, each handed the result of the step before it. *)

GROUP_FILE_J == "group.json"

CACHE_TTL == 5 * 60 * 1000

NonEmptyStr(s) == Len(s) > 0

(* first a normalization that would also drop a leading zero *)
normalizeCommitmentValue_numeric(value) ==
  IF Trim(value) = S042 THEN S42 ELSE Trim(value)

normalizeCommitmentValue(value) == Trim(value)

(* normalizeMembersArray(members): always a new array *)
normalizeMembersArray(m, aid) ==
  IF aid = NoRef THEN AllocArr(m, <<>>)
  ELSE AllocArr(m, SelectSeq([i \in 1..Len(m.a[aid]) |->
                                normalizeCommitmentValue(m.a[aid][i])],
                             NonEmptyStr))

(* initializeGroup(data = DEFAULT_GROUP): ref 0 is DEFAULT_GROUP itself,
   NoRef a value that is not an object *)
initializeGroup_J(m, ref) ==
  LET Root(m1, data, g) ==
        IF m1.o[data].root = NullRoot \/ Len(m1.a[m1.o[data].members]) = 0
        THEN IF g.ok THEN Res([m1 EXCEPT !.o[data].root = g.root], FALSE, data)
             ELSE Res(m1, TRUE, NoRef)
        ELSE Res(m1, FALSE, data)
      Norm(data, nm) ==
        Root([nm.m EXCEPT !.o[data].members = nm.ref], data,
             GroupRoot(nm.m.o[data].id, nm.m.o[data].treeDepth, <<>>))
      Data(c0) ==
        Norm(c0.ref, normalizeMembersArray(c0.m, c0.m.o[c0.ref].members))
  IN Data(IF ref = NoRef THEN AllocObj(m, m.o[0]) ELSE [m |-> m, ref |-> ref])

(* the plaintext branch of loadGroupFromFile, lines 63-71 *)
loadPlaintext_J(m) ==
  LET Enc(ini, enc) ==
        IF enc.exc THEN Res(enc.m, TRUE, NoRef) ELSE Res(enc.m, FALSE, ini.ret)
      Ini(ini) ==
        IF ini.exc THEN Res(ini.m, TRUE, NoRef)
        ELSE Enc(ini, encryptToFile(ini.m, GROUP_FILE_J, ini.ret))
      Mat(mat) == Ini(initializeGroup_J(mat.m, mat.ref))
      Parsed(p) == IF p.exc THEN Res(m, TRUE, NoRef) ELSE Mat(FromJSON(m, p.ret))
  IN Parsed(parsePlain(m, GROUP_FILE_J))

loadGroupFromFile_J(m) ==
  LET Plain(pl) == IF ~pl.exc THEN pl ELSE initializeGroup_J(pl.m, 0)
      Fallback(r) == IF ~r.exc THEN r ELSE Plain(loadPlaintext_J(r.m))
      Mat(mat) == initializeGroup_J(mat.m, mat.ref)
      Dec(d) == IF d.exc THEN Res(m, TRUE, NoRef) ELSE Mat(FromJSON(m, d.ret))
  IN IF m.files[GROUP_FILE_J].kind = "absent" THEN initializeGroup_J(m, 0)
     ELSE Fallback(Dec(decryptFromFile(m, GROUP_FILE_J)))

(* the cache validity check of getGroupData; first a check that still
   takes the cache at the very end of the window *)
CacheFresh_inclusive(m) ==
  m.cache # NoRef /\ m.ts # 0 /\ m.now - m.ts <= CACHE_TTL

CacheFresh(m) ==
  m.cache # NoRef /\ m.ts # 0 /\ m.now - m.ts < CACHE_TTL

getGroupData_J(m) ==
  LET Norm(ld, nm) ==
        Res([nm.m EXCEPT !.o[ld.ret].members = nm.ref,
                         !.cache = ld.ret, !.ts = m.now],
            FALSE, ld.ret)
      Loaded(ld) == Norm(ld, normalizeMembersArray(ld.m, ld.m.o[ld.ret].members))
  IN IF CacheFresh(m) THEN Res(m, FALSE, m.cache)
     ELSE Loaded(loadGroupFromFile_J([m EXCEPT !.loaded = TRUE]))

saveGroupToFile_J(m, data) == encryptToFile(m, GROUP_FILE_J, data)

saveGroupData_J(m, data) ==
  LET Cached(cp) ==
        Res([cp.m EXCEPT !.cache = cp.ref, !.ts = m.now], FALSE, NoRef)
      Saved(sv) ==
        IF sv.exc THEN Res(sv.m, TRUE, NoRef)
        ELSE Cached(AllocObj(sv.m, sv.m.o[data]))
      Norm(nm) ==
        Saved(saveGroupToFile_J([nm.m EXCEPT !.o[data].members = nm.ref], data))
  IN IF m.o[data].id = 0 \/ m.o[data].treeDepth = 0 \/ m.o[data].members = NoRef
     THEN Res(m, TRUE, NoRef)
     ELSE Norm(normalizeMembersArray(m, m.o[data].members))

(* addMember up to its first await: lines 164-167 *)
addMemberRead_J(m, commitment) == getGroupData_J(m)

(* addMember after the first await: lines 168-190; ret 1 is true, 0 false *)
addMemberWrite_J(m, commitment, cur) ==
  LET Saved(sv) == IF sv.exc THEN Res(sv.m, TRUE, 0) ELSE Res(sv.m, FALSE, 1)
      Rooted(m2, g) ==
        IF ~g.ok THEN Res(m2, TRUE, 0)
        ELSE Saved(saveGroupData_J([m2 EXCEPT !.o[cur].root = g.root], cur))
      Pushed(m2, ar) ==
        Rooted(m2, GroupOfMembers(m2.o[cur].id, m2.o[cur].treeDepth, m2.a[ar]))
      Checked(m1, ar, incoming) ==
        IF \E i \in 1..Len(m1.a[ar]) :
             normalizeCommitmentValue(m1.a[ar][i]) = incoming
        THEN Res(m1, FALSE, 0)
        ELSE Pushed([m1 EXCEPT !.a[ar] = Append(@, incoming)], ar)
      Norm(nm) ==
        Checked([nm.m EXCEPT !.o[cur].members = nm.ref], nm.ref,
                normalizeCommitmentValue(commitment))
  IN Norm(normalizeMembersArray(m, m.o[cur].members))

addMember_J(m, commitment) ==
  LET Write(rd) == addMemberWrite_J(rd.m, commitment, rd.ret)
  IN Write(addMemberRead_J(m, commitment))

BasicData == [id |-> 1, treeDepth |-> 20, members |-> NoRef, root |-> NullRoot]

(* the recovery branch of resetGroupData: basicData written as plain JSON *)
resetRecovery(m, path) ==
  LET Written(bd, wr) ==
        IF wr.exc THEN Res(wr.m, TRUE, 0)
        ELSE Res([wr.m EXCEPT !.cache = bd.ref, !.ts = m.now], FALSE, 1)
      Built(bd) == Written(bd, FsMut(bd.m, path, PlainFile(ToJSON(bd.m, bd.ref))))
      Arr(ar) == Built(AllocObj(ar.m, [BasicData EXCEPT !.members = ar.ref]))
  IN Arr(AllocArr(m, <<>>))

resetGroupData_J(m) ==
  LET Ini(ini) == IF ini.exc THEN ini ELSE saveGroupData_J(ini.m, ini.ret)
      Unlinked(ul) ==
        IF ul.exc THEN ul
        ELSE Ini(initializeGroup_J([ul.m EXCEPT !.cache = NoRef, !.ts = 0], 0))
      Caught(r) ==
        IF r.exc THEN resetRecovery(r.m, GROUP_FILE_J) ELSE Res(r.m, FALSE, 1)
  IN Caught(Unlinked(unlinkIfExists(m, GROUP_FILE_J)))

completeGroupReset_J(m) ==
  LET Ini(ini) ==
        IF ini.exc THEN Res(ini.m, TRUE, 0)
        ELSE Res([ini.m EXCEPT !.cache = ini.ret, !.ts = m.now], FALSE, 1)
      Unlinked(ul) ==
        IF ul.exc THEN Res(ul.m, TRUE, 0) ELSE Ini(initializeGroup_J(ul.m, 0))
  IN Unlinked(unlinkIfExists([m EXCEPT !.cache = NoRef, !.ts = 0], GROUP_FILE_J))

(* getMerkleRoot: ret is the root *)
getMerkleRoot_J(m) ==
  LET Rooted(gd, g) == Res(gd.m, ~g.ok, g.root)
      Got(gd) ==
        Rooted(gd, GroupOfMembers(gd.m.o[gd.ret].id, gd.m.o[gd.ret].treeDepth,
                                  MembersOf(gd.m, gd.ret)))
  IN Got(getGroupData_J(m))

-----------------------------------------------------------------------------
(* Variant E: group.js lines 281-579 *)

GROUP_FILE_E == "group.encrypted"
BACKUP_FILE == "group.backup.encrypted"
FALLBACK_FILE == "group.json"

(* initializeGroup(data = DEFAULT_GROUP), lines 302-308: reading a property
   of null, or the length of a missing members array, throws *)
initializeGroup_E(m, ref) ==
  LET Empty(g) ==
        IF g.ok THEN Res([m EXCEPT !.o[ref].root = g.root], FALSE, ref)
        ELSE Res(m, TRUE, NoRef)
  IN IF ref = NoRef THEN Res(m, TRUE, NoRef)
     ELSE IF m.o[ref].root # NullRoot /\ m.o[ref].members = NoRef
     THEN Res(m, TRUE, NoRef)
     ELSE IF m.o[ref].root = NullRoot \/ Len(m.a[m.o[ref].members]) = 0
     THEN Empty(GroupRoot(m.o[ref].id, m.o[ref].treeDepth, <<>>))
     ELSE Res(m, FALSE, ref)

(* decryptFromFile followed by initializeGroup, as in both try blocks *)
loadEncrypted_E(m, path) ==
  LET Mat(mat) == initializeGroup_E(mat.m, mat.ref)
      Dec(d) == IF d.exc THEN Res(m, TRUE, NoRef) ELSE Mat(FromJSON(m, d.ret))
  IN Dec(decryptFromFile(m, path))

loadGroupFromFile_E(m) ==
  LET Default(r) == IF ~r.exc THEN r ELSE initializeGroup_E(r.m, 0)
      Backup(pr) ==
        IF ~pr.exc THEN pr
        ELSE IF pr.m.files[BACKUP_FILE].kind # "absent"
        THEN loadEncrypted_E(pr.m, BACKUP_FILE)
        ELSE pr
  IN IF m.files[GROUP_FILE_E].kind = "absent" THEN initializeGroup_E(m, 0)
     ELSE Default(Backup(loadEncrypted_E(m, GROUP_FILE_E)))

(* lines 372-398; the log of data.members.length throws on a record that
   has no members array, after the cache has been assigned *)
getGroupData_E(m) ==
  LET Cached(m1, ret) ==
        IF m1.o[ret].members = NoRef THEN Res(m1, TRUE, NoRef)
        ELSE Res(m1, FALSE, ret)
      Loaded(ld) == Cached([ld.m EXCEPT !.cache = ld.ret, !.ts = m.now], ld.ret)
  IN IF CacheFresh(m) THEN Res(m, FALSE, m.cache)
     ELSE Loaded(loadGroupFromFile_E([m EXCEPT !.loaded = TRUE]))

saveGroupToFile_E(m, data) ==
  LET Copied(bk) ==
        IF bk.exc THEN bk ELSE encryptToFile(bk.m, GROUP_FILE_E, data)
  IN Copied(IF m.files[GROUP_FILE_E].kind # "absent"
            THEN FsMut(m, BACKUP_FILE, m.files[GROUP_FILE_E])
            ELSE Res(m, FALSE, NoRef))

saveGroupData_E(m, data) ==
  LET Cached(cp) ==
        Res([cp.m EXCEPT !.cache = cp.ref, !.ts = m.now], FALSE, NoRef)
      Saved(sv) ==
        IF sv.exc THEN Res(sv.m, TRUE, NoRef)
        ELSE Cached(AllocObj(sv.m, sv.m.o[data]))
  IN IF m.o[data].id = 0 \/ m.o[data].treeDepth = 0 \/ m.o[data].members = NoRef
     THEN Res(m, TRUE, NoRef)
     ELSE Saved(saveGroupToFile_E(m, data))

(* addMember up to its first await: lines 432-434 *)
addMemberRead_E(m, commitment) == getGroupData_E(m)

(* addMember after the first await: lines 435-457 *)
addMemberWrite_E(m, commitment, cur) ==
  LET Saved(sv) == IF sv.exc THEN Res(sv.m, TRUE, 0) ELSE Res(sv.m, FALSE, 1)
      Rooted(m2, g) ==
        IF ~g.ok THEN Res(m2, TRUE, 0)
        ELSE Saved(saveGroupData_E([m2 EXCEPT !.o[cur].root = g.root], cur))
      Pushed(m2, ar) ==
        Rooted(m2, GroupOfMembers(m2.o[cur].id, m2.o[cur].treeDepth, m2.a[ar]))
      Checked(ar) ==
        IF ar = NoRef THEN Res(m, TRUE, 0)
        ELSE IF \E i \in 1..Len(m.a[ar]) : m.a[ar][i] = commitment
        THEN Res(m, FALSE, 0)
        ELSE Pushed([m EXCEPT !.a[ar] = Append(@, commitment)], ar)
  IN Checked(m.o[cur].members)

addMember_E(m, commitment) ==
  LET Write(rd) ==
        IF rd.exc THEN Res(rd.m, TRUE, 0)
        ELSE addMemberWrite_E(rd.m, commitment, rd.ret)
  IN Write(addMemberRead_E(m, commitment))

resetGroupData_E(m) ==
  LET Ini(ini) == IF ini.exc THEN ini ELSE saveGroupData_E(ini.m, ini.ret)
      Backup(u2) ==
        IF u2.exc THEN u2
        ELSE Ini(initializeGroup_E([u2.m EXCEPT !.cache = NoRef, !.ts = 0], 0))
      Primary(u1) == IF u1.exc THEN u1 ELSE Backup(unlinkIfExists(u1.m, BACKUP_FILE))
      Caught(r) ==
        IF r.exc THEN resetRecovery(r.m, FALLBACK_FILE) ELSE Res(r.m, FALSE, 1)
  IN Caught(Primary(unlinkIfExists(m, GROUP_FILE_E)))

completeGroupReset_E(m) ==
  LET Written(ini, wr) ==
        IF wr.exc THEN Res(wr.m, TRUE, 0)
        ELSE Res([wr.m EXCEPT !.cache = ini.ret, !.ts = m.now], FALSE, 1)
      Ini(ini) ==
        IF ini.exc THEN Res(ini.m, TRUE, 0)
        ELSE Written(ini, FsMut(ini.m, FALLBACK_FILE,
                                PlainFile(ToJSON(ini.m, ini.ret))))
      Fallback(u3) ==
        IF u3.exc THEN Res(u3.m, TRUE, 0) ELSE Ini(initializeGroup_E(u3.m, 0))
      Backup(u2) ==
        IF u2.exc THEN Res(u2.m, TRUE, 0)
        ELSE Fallback(unlinkIfExists(u2.m, FALLBACK_FILE))
      Primary(u1) ==
        IF u1.exc THEN Res(u1.m, TRUE, 0)
        ELSE Backup(unlinkIfExists(u1.m, BACKUP_FILE))
  IN Primary(unlinkIfExists([m EXCEPT !.cache = NoRef, !.ts = 0], GROUP_FILE_E))

getMerkleRoot_E(m) ==
  LET Rooted(gd, g) == Res(gd.m, ~g.ok, g.root)
      Got(gd) ==
        IF gd.exc THEN Res(gd.m, TRUE, NullRoot)
        ELSE IF gd.m.o[gd.ret].members = NoRef THEN Res(gd.m, TRUE, NullRoot)
        ELSE Rooted(gd, GroupOfMembers(gd.m.o[gd.ret].id, gd.m.o[gd.ret].treeDepth,
                                       MembersOf(gd.m, gd.ret)))
  IN Got(getGroupData_E(m))

-----------------------------------------------------------------------------
(* Variant P: the fs/promises store, every file access awaited *)

GROUP_FILE_P == "group.json"

(* saveGroupData(data): mkdir, then writeFile of JSON.stringify(data) *)
saveGroupData_P(m, data) ==
  FsMut(m, GROUP_FILE_P, PlainFile(ToJSON(m, data)))

(* fs.access(GROUP_FILE) in ensureGroupFile: does the file exist *)
ensureGroupFile_P(m) == m.files[GROUP_FILE_P].kind # "absent"

(* the try block of getGroupData: read, parse, validate *)
readGroup_P(m) ==
  LET Valid(m1, data) ==
        IF m1.o[data].id = 0 \/ m1.o[data].treeDepth = 0
           \/ m1.o[data].members = NoRef
        THEN Res(m1, TRUE, NoRef)
        ELSE Res(m1, FALSE, data)
      Mat(mat) ==
        IF mat.ref = NoRef THEN Res(m, TRUE, NoRef) ELSE Valid(mat.m, mat.ref)
      Parsed(p) == IF p.exc THEN Res(m, TRUE, NoRef) ELSE Mat(FromJSON(m, p.ret))
  IN Parsed(parsePlain(m, GROUP_FILE_P))

(* the catch block of getGroupData: DEFAULT_GROUP is saved and a shallow
   copy of it returned *)
recoverGroup_P(m) ==
  LET Copy(cp) == Res(cp.m, FALSE, cp.ref)
      Saved(sv) ==
        IF sv.exc THEN Res(sv.m, TRUE, NoRef) ELSE Copy(AllocObj(sv.m, sv.m.o[0]))
  IN Saved(saveGroupData_P(m, 0))

(* addMember between its two awaits; ret 0: already a member, 1: go on to
   saveGroupData *)
addMemberCheck_P(m, commitment, cur) ==
  LET Rooted(m2, g) ==
        IF ~g.ok THEN Res(m2, TRUE, 0)
        ELSE Res([m2 EXCEPT !.o[cur].root = g.root], FALSE, 1)
      Pushed(m2, ar) ==
        Rooted(m2, GroupOfMembers(m2.o[cur].id, m2.o[cur].treeDepth, m2.a[ar]))
      Checked(ar) ==
        IF \E i \in 1..Len(m.a[ar]) : m.a[ar][i] = commitment
        THEN Res(m, FALSE, 0)
        ELSE Pushed([m EXCEPT !.a[ar] = Append(@, commitment)], ar)
  IN Checked(m.o[cur].members)

-----------------------------------------------------------------------------
(* State of the system *)

Procs == {1, 2}
Paths == {"group.json", "group.encrypted", "group.backup.encrypted"}

DEFAULT_GROUP == [id |-> 1, treeDepth |-> 20, members |-> 0, root |-> NullRoot]

(* the memory of a process that has just loaded the module; loaded tells
   whether the process has run loadGroupFromFile since *)
InitMem == [o |-> (0 :> DEFAULT_GROUP), a |-> (0 :> <<>>), cache |-> NoRef, ts |-> 0,
            loaded |-> FALSE]

(* a call in flight: its position, the reference it holds (currentGroupData)
   and the members it read *)
NoTask == [proc |-> 0, pc |-> "idle", op |-> "none", arg |-> <<>>, cur |-> NoRef,
           ret |-> NoRef, exc |-> FALSE, seen |-> <<>>]

Tasks == {1, 2}

(* the machine one call runs on: the memory of process p, the shared files,
   the clock, and the faults the environment injects into this call *)
Machine(p, failAt, encFail) ==
  [o |-> mem[p].o, a |-> mem[p].a, cache |-> mem[p].cache, ts |-> mem[p].ts,
   loaded |-> mem[p].loaded, files |-> files, now |-> now, key |-> Key,
   io |-> 0, failAt |-> failAt, encFail |-> encFail, encTried |-> FALSE]

Range(s) == {s[i] : i \in DOMAIN s}

RECURSIVE Dedup(_, _)
Dedup(s, acc) ==
  IF Len(s) = 0 THEN acc
  ELSE Dedup(Tail(s), IF Head(s) = NoRef \/ Head(s) \in Range(acc)
                      THEN acc ELSE Append(acc, Head(s)))

IndexOf(s, x) == CHOOSE i \in 1..Len(s) : s[i] = x

(* garbage collection: keep what is reachable from DEFAULT_GROUP, the cache
   and the references held by calls in flight, renumbered in that order *)
Collect(m, held) ==
  LET Ren(os, r) == IF r = NoRef THEN NoRef ELSE IndexOf(os, r) - 1
      Build(os, as) ==
        [o |-> [i \in 0..(Len(os) - 1) |->
                  [m.o[os[i + 1]] EXCEPT !.members =
                     IF @ = NoRef THEN NoRef ELSE IndexOf(as, @) - 1]],
         a |-> [i \in 0..(Len(as) - 1) |-> m.a[as[i + 1]]],
         cache |-> Ren(os, m.cache), ts |-> m.ts, loaded |-> m.loaded,
         held |-> [i \in 1..Len(held) |-> Ren(os, held[i])]]
      Objects(os) ==
        Build(os, Dedup([i \in 1..Len(os) |-> m.o[os[i]].members], <<>>))
  IN Objects(Dedup(<<0, m.cache>> \o held, <<>>))

ProcMemOf(c) ==
  [o |-> c.o, a |-> c.a, cache |-> c.cache, ts |-> c.ts, loaded |-> c.loaded]

WithinBounds(c) == \A i \in DOMAIN c.a : Len(c.a[i]) <= MaxMembers

(* what a call that reads the store would be handed right now *)
getGroupData(m) ==
  LET Read(rd) == IF rd.exc THEN recoverGroup_P(rd.m) ELSE rd
  IN CASE variant = "J" -> getGroupData_J(m)
       [] variant = "E" -> getGroupData_E(m)
       [] OTHER -> Read(readGroup_P(m))

ViewOf(r) == IF r.exc \/ r.ret = NoRef THEN JNull ELSE ToJSON(r.m, r.ret)

Peek(p) == ViewOf(getGroupData(Machine(p, 0, FALSE)))

(* what a cold process would load from the files *)
ColdMachine(fs) ==
  [o |-> InitMem.o, a |-> InitMem.a, cache |-> NoRef, ts |-> 0,
   loaded |-> FALSE, files |-> fs, now |-> now, key |-> Key,
   io |-> 0, failAt |-> 0, encFail |-> FALSE, encTried |-> FALSE]

ColdView(fs) == ViewOf(getGroupData(ColdMachine(fs)))

CacheView(p) ==
  IF mem[p].cache = NoRef THEN JNull
  ELSE JObj(mem[p].o[mem[p].cache].id, mem[p].o[mem[p].cache].treeDepth,
            mem[p].o[mem[p].cache].members # NoRef,
            IF mem[p].o[mem[p].cache].members = NoRef THEN <<>>
            ELSE mem[p].a[mem[p].o[mem[p].cache].members],
            mem[p].o[mem[p].cache].root)

GROUP_FILE == IF variant = "E" THEN GROUP_FILE_E ELSE GROUP_FILE_J

-----------------------------------------------------------------------------
(* Observations of the last step, for the properties *)

NoObs == [op |-> "init", proc |-> 0, arg |-> <<>>, ret |-> NoRef, exc |-> FALSE,
          faulted |-> FALSE, view |-> JNull, root |-> NullRoot]

(* what a returning call shows: its result, the state getGroupData handed
   out, the root getMerkleRoot computed *)
Obs(p, op, arg, r, f) ==
  [NoObs EXCEPT !.op = op, !.proc = p, !.arg = arg, !.exc = r.exc,
                !.faulted = (f.failAt # 0 \/ f.encFail),
                !.ret = IF op \in {"getGroupData", "getMerkleRoot"}
                        THEN NoRef ELSE r.ret,
                !.view = IF op = "getGroupData" THEN ViewOf(r) ELSE JNull,
                !.root = IF op = "getMerkleRoot" THEN r.ret ELSE NullRoot]

(* the faults the environment may inject into one call *)
NoFault == [failAt |-> 0, encFail |-> FALSE]
Faults == {[failAt |-> n, encFail |-> e] : n \in 0..MaxFailAt, e \in BOOLEAN}

(* the chosen faults must actually strike in the call *)
FaultStruck(r, f) ==
  /\ f.failAt # 0 => f.failAt <= r.m.io
  /\ f.encFail => r.m.encTried

(* the memory of process p, the files and the calls in flight after a step
   that ends with the collected heap c *)
Store(p, c, fs, obs, tk) ==
  /\ WithinBounds(c)
  /\ mem' = [mem EXCEPT ![p] = ProcMemOf(c)]
  /\ files' = fs
  /\ last' = obs
  /\ tasks' = [t \in Tasks |-> IF tk[t].proc = p
                                THEN [tk[t] EXCEPT !.cur = c.held[t]] ELSE tk[t]]
  /\ UNCHANGED <<variant, now, env, sec>>

(* the state after a step of process p that leaves the calls in flight as
   tk (references as numbered in r.m) *)
CommitTasks(p, r, obs, tk) ==
  Store(p, Collect(r.m, [t \in 1..2 |-> IF tk[t].proc = p THEN tk[t].cur ELSE NoRef]),
        r.m.files, obs, tk)

InFlight(p) ==
  \E t \in Tasks : tasks[t].proc = p /\ tasks[t].pc \notin {"idle", "done"}

(* a call run to completion: nothing of the process runs in between *)
Commit(p, r, obs) ==
  /\ ~InFlight(p)
  /\ CommitTasks(p, r, obs, [t \in Tasks |-> tasks[t]])

(* the call made with fault f returns r *)
Return(p, op, arg, f, r) ==
  /\ FaultStruck(r, f)
  /\ Commit(p, r, Obs(p, op, arg, r, f))

-----------------------------------------------------------------------------
(* Operations of one process, each call run to completion *)

AddMember(p, c, F) ==
  \E f \in F :
    Return(p, "addMember", c, f,
           IF variant = "J" THEN addMember_J(Machine(p, f.failAt, f.encFail), c)
           ELSE addMember_E(Machine(p, f.failAt, f.encFail), c))

GetGroupData(p, F) ==
  \E f \in F :
    Return(p, "getGroupData", <<>>, f,
           getGroupData(Machine(p, f.failAt, f.encFail)))

ResetGroupData(p, F) ==
  \E f \in F :
    Return(p, "resetGroupData", <<>>, f,
           IF variant = "J" THEN resetGroupData_J(Machine(p, f.failAt, f.encFail))
           ELSE resetGroupData_E(Machine(p, f.failAt, f.encFail)))

CompleteGroupReset(p, F) ==
  \E f \in F :
    Return(p, "completeGroupReset", <<>>, f,
           IF variant = "J" THEN completeGroupReset_J(Machine(p, f.failAt, f.encFail))
           ELSE completeGroupReset_E(Machine(p, f.failAt, f.encFail)))

GetMerkleRoot(p, F) ==
  \E f \in F :
    Return(p, "getMerkleRoot", <<>>, f,
           IF variant = "J" THEN getMerkleRoot_J(Machine(p, f.failAt, f.encFail))
           ELSE getMerkleRoot_E(Machine(p, f.failAt, f.encFail)))

(* the process exits and a new one starts: module state is built afresh *)
Restart(p) ==
  /\ mem' = [mem EXCEPT ![p] = InitMem]
  /\ last' = [NoObs EXCEPT !.op = "restart", !.proc = p]
  /\ UNCHANGED <<variant, files, now, env, tasks, sec>>

(* time passes: just short of the freshness window, or all of it *)
Tick ==
  \E d \in {CACHE_TTL - 1, CACHE_TTL} :
    /\ env.ticks < MaxTicks
    /\ now' = now + d
    /\ env' = [env EXCEPT !.ticks = @ + 1]
    /\ last' = [NoObs EXCEPT !.op = "tick"]
    /\ UNCHANGED <<variant, mem, files, tasks, sec>>

(* states the environment can leave a file in *)
SampleState == JObj(1, 20, TRUE, <<S7>>, GroupRoot(1, 20, <<7>>).root)
NoMembersRecord == JObj(1, 20, FALSE, <<>>, NullRoot)

TamperedContents(f) ==
  {Absent, Garbage, PlainFile(SampleState), EncFile(Key, SampleState),
   EncFile(OtherKey, SampleState), EncFile(Key, NoMembersRecord)}
  \cup (IF f.kind = "enc" THEN {[f EXCEPT !.intact = FALSE]} ELSE {})

(* the files the variant's code reads *)
ReadPaths == IF variant = "E" THEN {GROUP_FILE_E, BACKUP_FILE} ELSE {GROUP_FILE_J}

Tamper ==
  \E path \in ReadPaths :
    \E c \in TamperedContents(files[path]) :
      /\ env.tampers < MaxTamper
      /\ c # files[path]
      /\ files' = [files EXCEPT ![path] = c]
      /\ env' = [env EXCEPT !.tampers = @ + 1]
      /\ last' = [NoObs EXCEPT !.op = "tamper"]
      /\ UNCHANGED <<variant, mem, now, tasks, sec>>

(* the identity and encryption code keeps no state of its own in a
   behaviour of the store *)
NoSec == [part |-> "store"]

Init ==
  /\ variant \in {"J", "E"}
  /\ mem = [p \in Procs |-> InitMem]
  /\ files = [p \in Paths |-> Absent]
  /\ now = 1
  /\ env = [ticks |-> 0, tampers |-> 0]
  /\ tasks = [t \in Tasks |-> NoTask]
  /\ last = NoObs
  /\ sec = NoSec

(* one process, every call run to completion, no faults, intact files *)
Next ==
  \/ \E c \in Commitments : AddMember(1, c, {NoFault})
  \/ GetGroupData(1, {NoFault})
  \/ ResetGroupData(1, {NoFault})
  \/ CompleteGroupReset(1, {NoFault})
  \/ GetMerkleRoot(1, {NoFault})
  \/ Restart(1)
  \/ Tick

Spec == Init /\ [][Next]_vars

(* the same, with the commitments that pass the request validation only *)
NextValid ==
  \/ \E c \in ValidCommitments : AddMember(1, c, {NoFault})
  \/ GetGroupData(1, {NoFault})
  \/ ResetGroupData(1, {NoFault})
  \/ CompleteGroupReset(1, {NoFault})
  \/ GetMerkleRoot(1, {NoFault})
  \/ Restart(1)
  \/ Tick

SpecValid == Init /\ [][NextValid]_vars

-----------------------------------------------------------------------------
(* Several processes on the same files: addMember of group.js in its two
   segments, the other process running in between *)

TaskObs(p, op, t, r) ==
  [NoObs EXCEPT !.op = op, !.proc = p, !.arg = tasks[t].arg, !.exc = r.exc]

(* getGroupData has returned r to the addMember call of process p *)
Begun(p, c, r) ==
  CommitTasks(p, r, [NoObs EXCEPT !.op = "addMemberRead", !.proc = p,
                                  !.arg = c, !.exc = r.exc],
              [tasks EXCEPT ![p] =
                 [NoTask EXCEPT !.proc = p, !.op = "addMember", !.arg = c,
                                !.pc = IF r.exc THEN "done" ELSE "read",
                                !.cur = IF r.exc THEN NoRef ELSE r.ret,
                                !.exc = r.exc, !.seen = ViewOf(r).members]])

BeginAddMember(p, c) ==
  /\ tasks[p].pc \in {"idle", "done"}
  /\ Begun(p, c, IF variant = "J" THEN addMemberRead_J(Machine(p, 0, FALSE), c)
                 ELSE addMemberRead_E(Machine(p, 0, FALSE), c))

(* the rest of the addMember call of process p has come to r *)
Ended(p, r) ==
  CommitTasks(p, r, [TaskObs(p, "addMemberWrite", p, r) EXCEPT !.ret = r.ret],
              [tasks EXCEPT ![p].pc = "done", ![p].cur = NoRef,
                            ![p].ret = r.ret, ![p].exc = r.exc])

EndAddMember(p) ==
  /\ tasks[p].pc = "read"
  /\ Ended(p, IF variant = "J"
              THEN addMemberWrite_J(Machine(p, 0, FALSE), tasks[p].arg, tasks[p].cur)
              ELSE addMemberWrite_E(Machine(p, 0, FALSE), tasks[p].arg, tasks[p].cur))

NextProcs ==
  \/ \E p \in Procs, c \in {S42, S7} : BeginAddMember(p, c)
  \/ \E p \in Procs : EndAddMember(p)
  \/ \E p \in Procs : GetGroupData(p, {NoFault})

SpecProcs == Init /\ [][NextProcs]_vars

-----------------------------------------------------------------------------
(* One process running variant P: calls interleave at every awaited file
   access *)

InitP ==
  /\ variant = "P"
  /\ mem = [p \in Procs |-> InitMem]
  /\ files = [p \in Paths |-> Absent]
  /\ now = 1
  /\ env = [ticks |-> 0, tampers |-> 0]
  /\ tasks = [t \in Tasks |-> NoTask]
  /\ last = NoObs
  /\ sec = NoSec

(* call t has taken a step that came to r and left it as tk *)
StepP(t, r, op, tk) ==
  CommitTasks(1, r, [TaskObs(1, op, t, r) EXCEPT !.ret = tk.ret, !.arg = tk.arg,
                                                 !.view = IF tk.pc = "done" /\ tk.op = "getGroupData"
                                                          THEN ViewOf(r) ELSE JNull],
              [tasks EXCEPT ![t] = tk])

(* what call t does with the group data r it has obtained: getGroupData
   returns it, addMember goes on to its check, ck *)
AfterGet_P(t, op, r, ck) ==
  IF r.exc
  THEN StepP(t, r, op, [tasks[t] EXCEPT !.pc = "done", !.exc = TRUE, !.cur = NoRef])
  ELSE IF tasks[t].op = "getGroupData"
  THEN StepP(t, r, op, [tasks[t] EXCEPT !.pc = "done", !.cur = NoRef,
                                        !.seen = ViewOf(r).members])
  ELSE IF ck.exc \/ ck.ret = 0
  THEN StepP(t, Res(ck.m, ck.exc, r.ret), op,
             [tasks[t] EXCEPT !.pc = "done", !.exc = ck.exc, !.ret = 0,
                              !.cur = NoRef, !.seen = ViewOf(r).members])
  ELSE StepP(t, Res(ck.m, FALSE, r.ret), op,
             [tasks[t] EXCEPT !.pc = "save", !.cur = r.ret,
                              !.seen = ViewOf(r).members])

Got_P(t, op, r) ==
  AfterGet_P(t, op, r,
             IF r.exc \/ tasks[t].op = "getGroupData" THEN Res(r.m, FALSE, 0)
             ELSE addMemberCheck_P(r.m, tasks[t].arg, r.ret))

(* the call, up to the completion of fs.access in ensureGroupFile *)
Call_P(t, op, c) ==
  /\ tasks[t].pc \in {"idle", "done"}
  /\ StepP(t, Res(Machine(1, 0, FALSE), FALSE, NoRef), "call",
           [NoTask EXCEPT !.proc = 1, !.op = op, !.arg = c,
                          !.pc = IF ensureGroupFile_P(Machine(1, 0, FALSE))
                                 THEN "read" ELSE "ensure"])

(* ensureGroupFile found no file: saveGroupData(DEFAULT_GROUP) *)
Ensure_P(t) ==
  /\ tasks[t].pc = "ensure"
  /\ StepP(t, saveGroupData_P(Machine(1, 0, FALSE), 0), "ensure",
           [tasks[t] EXCEPT !.pc = "read"])

(* readFile has completed: parsed and validated to rd *)
ReadDone_P(t, rd) ==
  IF rd.exc THEN StepP(t, rd, "read", [tasks[t] EXCEPT !.pc = "recover"])
  ELSE Got_P(t, "read", rd)

(* readFile completes: parse and validate, then on to the caller's code *)
Read_P(t) ==
  /\ tasks[t].pc = "read"
  /\ ReadDone_P(t, readGroup_P(Machine(1, 0, FALSE)))

(* the catch block: DEFAULT_GROUP saved, a copy of it used *)
Recover_P(t) ==
  /\ tasks[t].pc = "recover"
  /\ Got_P(t, "recover", recoverGroup_P(Machine(1, 0, FALSE)))

(* addMember's saveGroupData completes and the call returns true *)
Save_P(t) ==
  /\ tasks[t].pc = "save"
  /\ StepP(t, saveGroupData_P(Machine(1, 0, FALSE), tasks[t].cur), "save",
           [tasks[t] EXCEPT !.pc = "done", !.ret = 1, !.cur = NoRef])

NextAsync ==
  \/ \E t \in Tasks, c \in {S42, S7} : Call_P(t, "addMember", c)
  \/ \E t \in Tasks : Call_P(t, "getGroupData", <<>>)
  \/ \E t \in Tasks : Ensure_P(t)
  \/ \E t \in Tasks : Read_P(t)
  \/ \E t \in Tasks : Recover_P(t)
  \/ \E t \in Tasks : Save_P(t)
  \/ Tamper

SpecAsync == InitP /\ [][NextAsync]_vars

(* one process with injected faults and files the environment has touched *)
NextEnv ==
  \/ \E c \in {S42, S7} : AddMember(1, c, {NoFault})
  \/ GetGroupData(1, {NoFault})
  \/ ResetGroupData(1, {NoFault})
  \/ Restart(1)
  \/ Tamper

SpecEnv == Init /\ [][NextEnv]_vars

(* one process over the cache window: calls, restarts and the clock *)
NextCache ==
  \/ AddMember(1, S7, {NoFault})
  \/ GetGroupData(1, {NoFault})
  \/ ResetGroupData(1, {NoFault})
  \/ CompleteGroupReset(1, {NoFault})
  \/ Restart(1)
  \/ Tick

SpecCache == Init /\ [][NextCache]_vars

(* one process adding decimal strings, two of which denote the same integer *)
NextDup ==
  \/ \E c \in {S42, S042, S7} : AddMember(1, c, {NoFault})
  \/ GetGroupData(1, {NoFault})
  \/ ResetGroupData(1, {NoFault})
  \/ Restart(1)
  \/ Tick

SpecDup == Init /\ [][NextDup]_vars

NextFault ==
  \/ \E c \in {S42, S7} : AddMember(1, c, Faults)
  \/ GetGroupData(1, Faults)
  \/ ResetGroupData(1, Faults)
  \/ CompleteGroupReset(1, Faults)
  \/ Restart(1)

SpecFault == Init /\ [][NextFault]_vars

-----------------------------------------------------------------------------
(* Properties *)

EmptyRoot == GroupRoot(DEFAULT_GROUP.id, DEFAULT_GROUP.treeDepth, <<>>).root

(* the root of a state is the root function of its members at its depth *)
RootConsistent(v) ==
  /\ v.obj /\ v.hasMembers /\ AllBigInt(v.members)
  /\ v.root = GroupRoot(v.id, v.treeDepth, MapBigInt(v.members)).root

SameGroupState(v, w) ==
  /\ v.obj = w.obj /\ v.id = w.id /\ v.treeDepth = w.treeDepth
  /\ v.members = w.members /\ v.root = w.root

IsMember(v, c) ==
  \E i \in 1..Len(v.members) : Trim(v.members[i]) = Trim(c)

Malformed(c) == Len(Trim(c)) = 0 \/ ~BigIntOf(c).ok

MutatingOps == {"addMember", "resetGroupData", "completeGroupReset"}

(* C1: addMember of a commitment whose normalized form is already a member
   returns false and leaves the members, the root and the files unchanged *)
C1_IdempotentMembership ==
  [][(last'.op = "addMember" /\ IsMember(Peek(1), last'.arg))
       => /\ ~last'.exc /\ last'.ret = 0
          /\ Peek(1)'.members = Peek(1).members
          /\ Peek(1)'.root = Peek(1).root
          /\ files' = files]_vars

(* C2: after resetGroupData has completed, the next getGroupData returns no
   members and the root of the empty set, and so does the persisted state *)
C2_ResetEmptiesGroup ==
  (last.op = "resetGroupData" /\ ~last.exc /\ ~last.faulted)
    => /\ Peek(1).members = <<>> /\ Peek(1).root = EmptyRoot
       /\ ColdView(files).members = <<>> /\ ColdView(files).root = EmptyRoot

(* C3: after an addMember that returned true and after a resetGroupData that
   returned, the root in the cache and the root on disk are the root function
   of the stored members *)
C3_RootConsistentAfterMutation ==
  ((last.op = "addMember" /\ ~last.exc /\ last.ret = 1)
     \/ (last.op = "resetGroupData" /\ ~last.exc))
    => /\ RootConsistent(CacheView(1))
       /\ RootConsistent(files[GROUP_FILE].data)

(* C4: the state returned by getGroupData has the root of its members *)
C4_RootConsistentAtRead ==
  (last.op = "getGroupData" /\ ~last.exc) => RootConsistent(last.view)

(* C5: addMember of an empty or malformed commitment is rejected and leaves
   the cached and persisted members and root as they were *)
C5_ValidationBeforeMutation ==
  [][(last'.op = "addMember" /\ Malformed(last'.arg))
       => /\ last'.ret # 1
          /\ Peek(1)'.members = Peek(1).members
          /\ Peek(1)'.root = Peek(1).root
          /\ files' = files]_vars

(* C6: when a mutating operation has returned, the cached state is the state
   a cold process would load from the files *)
C6_WriteThrough ==
  (last.op \in MutatingOps /\ ~last.exc /\ ~last.faulted)
    => SameGroupState(CacheView(1), ColdView(files))

(* every call in flight has run to its end *)
Quiescent == \A t \in Tasks : tasks[t].pc \in {"idle", "done"}

ReturnedTrue(t) ==
  /\ tasks[t].op = "addMember" /\ tasks[t].pc = "done"
  /\ ~tasks[t].exc /\ tasks[t].ret = 1

(* C7: with two processes on the same files the second writer silently wins:
   an addMember that returns true leaves on disk exactly the members it had
   read plus its own commitment, whatever another process has written in
   between, so that two racing calls can both return true while only the
   second writer's commitment is persisted *)
C7_SecondWriterWins ==
  (last.op = "addMemberWrite" /\ ~last.exc /\ last.ret = 1)
    => ColdView(files).members = Append(tasks[last.proc].seen, last.arg)

(* both racing calls returned true, the persisted list holds the second
   writer's commitment only *)
C7_LostUpdateReached ==
  /\ variant = "J"
  /\ ReturnedTrue(1) /\ ReturnedTrue(2)
  /\ tasks[1].arg # tasks[2].arg
  /\ tasks[1].seen = <<>> /\ tasks[2].seen = <<>>
  /\ last.op = "addMemberWrite"
  /\ ColdView(files).members = <<last.arg>>

(* C8: inside one process, once all concurrent calls have returned, every
   addMember that returned true has its commitment in the persisted member
   list (the files being left alone by the environment) *)
C8_InProcessAtomicity ==
  (variant = "P" /\ env.tampers = 0 /\ Quiescent)
    => \A t \in Tasks :
         ReturnedTrue(t) => IsMember(files[GROUP_FILE_P].data, tasks[t].arg)

(* a file that decrypts under the process key to a record with a member list *)
Decrypts(f) == f.kind = "enc" /\ f.key = Key /\ f.intact /\ f.data.hasMembers

ParsesPlain(f) == f.kind = "plain" /\ f.data.obj /\ f.data.hasMembers

(* the members the fallback order yields: primary decrypted, backup
   decrypted, primary parsed as plaintext, default *)
LoadOrder(fs) ==
  IF Decrypts(fs[GROUP_FILE]) THEN fs[GROUP_FILE].data.members
  ELSE IF Decrypts(fs[BACKUP_FILE]) THEN fs[BACKUP_FILE].data.members
  ELSE IF ParsesPlain(fs[GROUP_FILE]) THEN fs[GROUP_FILE].data.members
  ELSE <<>>

(* no file holds a record without a member list, and DEFAULT_GROUP has not
   been written into *)
PlainCase ==
  /\ \A path \in Paths : files[path].data.obj => files[path].data.hasMembers
  /\ mem[1].a[mem[1].o[0].members] = <<>>

(* C9: a getGroupData that is not served from the cache returns the members
   of the first step that succeeds among: primary decrypted, backup
   decrypted, primary parsed as legacy plaintext, the default empty state *)
C9_LoadFallbackOrder ==
  [][(last'.op = "getGroupData" /\ mem[1].cache = NoRef /\ PlainCase)
       => /\ ~last'.exc
          /\ last'.view.members = LoadOrder(files)]_vars

(* C10: whatever the primary and backup files hold, getGroupData returns a
   group state and does not raise *)
C10_GetGroupDataNeverRaises ==
  last.op = "getGroupData" => (~last.exc /\ last.view.obj)

(* no file holds anything a load step could use *)
NothingLoadable(fs) ==
  \A path \in Paths : ~Decrypts(fs[path]) /\ ~ParsesPlain(fs[path])

(* C11: a getGroupData that is not served from the cache and finds nothing
   loadable on disk returns no members and the root of the empty set,
   whatever the process has done before *)
C11_RecoveryNeverInventsMembers ==
  [][(last'.op = "getGroupData" /\ ~CacheFresh(Machine(1, 0, FALSE))
        /\ NothingLoadable(files))
       => /\ ~last'.exc
          /\ last'.view.members = <<>>
          /\ last'.view.root = EmptyRoot]_vars

(* C12: a getGroupData that falls back to the default state, nothing being
   loadable, leaves the default written to the primary file, where a cold
   load then decrypts it *)
C12_DefaultIsPersisted ==
  [][(last'.op = "getGroupData" /\ ~last'.exc
        /\ ~CacheFresh(Machine(1, 0, FALSE)) /\ NothingLoadable(files))
       => Decrypts(files'[GROUP_FILE])]_vars

(* a file a load step can use: it decrypts, or parses as legacy plaintext *)
LoadableFile(f) == Decrypts(f) \/ ParsesPlain(f)

(* C13: when the primary file is loadable and an addMember or a
   resetGroupData fails at one of its file writes, the primary file or the
   backup file is loadable afterwards *)
C13_WriteDiscipline ==
  [][(last'.op \in {"addMember", "resetGroupData"} /\ last'.faulted
        /\ LoadableFile(files[GROUP_FILE]))
       => \/ LoadableFile(files'[GROUP_FILE])
          \/ LoadableFile(files'[BACKUP_FILE])]_vars

(* C14: after completeGroupReset has returned, no backing file exists, and
   the next load, from the cache or by a cold process, returns the empty
   default state *)
C14_CompleteResetCleanSlate ==
  (last.op = "completeGroupReset" /\ ~last.exc)
    => /\ \A path \in Paths : files[path].kind = "absent"
       /\ Peek(1).members = <<>> /\ Peek(1).root = EmptyRoot
       /\ ColdView(files).members = <<>> /\ ColdView(files).root = EmptyRoot

(* getGroupData has answered from the cache of process 1 as it was *)
ServedFromCache ==
  /\ mem'[1].ts = mem[1].ts
  /\ mem'[1].cache = mem[1].cache
  /\ last'.view = CacheView(1)

(* getGroupData has run loadGroupFromFile and stamped the cache with now *)
Reloaded == mem'[1].ts = now /\ mem'[1].loaded

WindowOpen == mem[1].cache # NoRef /\ now - mem[1].ts < CACHE_TTL

(* C15: getGroupData answers from the cache only when less than CACHE_TTL has
   elapsed since the cache timestamp, reloads from disk otherwise, and no
   state is served by a process that has not loaded from disk at least
   once *)
C15_BoundedCacheFreshness ==
  [][(last'.op = "getGroupData" /\ ~last'.exc)
       => /\ IF WindowOpen THEN ServedFromCache ELSE Reloaded
          /\ mem'[1].loaded]_vars

(* C15 as the code has it: the cache is used exactly while the window is
   open; a call made with no cached state, as in a process that has just
   started, or at or after the end of the window loads from disk *)
C15_CacheUsedWithinWindowOnly ==
  [][(last'.op = "getGroupData" /\ ~last'.exc)
       => IF WindowOpen THEN ServedFromCache ELSE Reloaded]_vars

(* a call made exactly CACHE_TTL after the cache was stamped has reloaded *)
C15_ReloadedAtWindowEnd ==
  /\ last.op = "getGroupData" /\ ~last.exc
  /\ env.ticks = 1 /\ now = 1 + CACHE_TTL
  /\ mem[1].ts = now /\ mem[1].loaded
  /\ mem[1].cache # NoRef

IsPrefix(s, t) == Len(s) <= Len(t) /\ SubSeq(t, 1, Len(s)) = s

(* what getGroupData would return to a process with memory pm, the files
   being fs and the clock t *)
PeekOf(pm, fs, t) ==
  ViewOf(getGroupData([o |-> pm.o, a |-> pm.a, cache |-> pm.cache, ts |-> pm.ts,
                       loaded |-> pm.loaded, files |-> fs, now |-> t, key |-> Key,
                       io |-> 0, failAt |-> 0, encFail |-> FALSE,
                       encTried |-> FALSE]))

(* C16: between resets and within one process, the member list getGroupData
   would return before a call of the API or the passing of time is a prefix
   of the list it would return after it: no addMember, cache reload,
   normalisation or recovery removes or reorders a member *)
C16_AppendOnlyMembership ==
  [][last'.op \in {"addMember", "getGroupData", "getMerkleRoot", "tick"}
       => IsPrefix(PeekOf(mem[1], files, now).members,
                   PeekOf(mem'[1], files', now').members)]_vars

NoDuplicates(members) ==
  \A i, j \in 1..Len(members) :
    i # j => normalizeCommitmentValue(members[i]) # normalizeCommitmentValue(members[j])

(* C17: with commitments that pass the request validation, neither the
   cached member list nor the list in the group's file ever holds two
   entries with the same normalized string *)
C17_NoDuplicateMembers ==
  /\ NoDuplicates(CacheView(1).members)
  /\ NoDuplicates(files[GROUP_FILE].data.members)

(* a cold load that finds a legacy plaintext primary file and no backup to
   decrypt *)
LegacyLoad ==
  /\ last'.op = "getGroupData"
  /\ ~CacheFresh(Machine(1, 0, FALSE))
  /\ ParsesPlain(files[GROUP_FILE])
  /\ ~Decrypts(files[BACKUP_FILE])

(* C18: getGroupData on a legacy plaintext primary file returns the members
   and root the file held, leaves the primary file encrypted with the same
   members and root, and a cold process then loads the same members and
   root from it *)
C18_MigrationOnReadPreservesState ==
  [][LegacyLoad
       => /\ ~last'.exc
          /\ last'.view.members = files[GROUP_FILE].data.members
          /\ last'.view.root = files[GROUP_FILE].data.root
          /\ Decrypts(files'[GROUP_FILE])
          /\ files'[GROUP_FILE].data.members = files[GROUP_FILE].data.members
          /\ files'[GROUP_FILE].data.root = files[GROUP_FILE].data.root
          /\ ColdView(files').members = files[GROUP_FILE].data.members
          /\ ColdView(files').root = files[GROUP_FILE].data.root]_vars

(* C19: when a cold load migrates a legacy plaintext primary file, that is
   leaves it encrypted, some other file holds the state the plaintext file
   held *)
C19_MigrationKeepsBackup ==
  [][(LegacyLoad /\ Decrypts(files'[GROUP_FILE]))
       => \E path \in Paths \ {GROUP_FILE} :
            /\ files'[path].kind # "absent"
            /\ files'[path].data = files[GROUP_FILE].data]_vars

SameIdAndDepth(v) ==
  v.obj => v.id = DEFAULT_GROUP.id /\ v.treeDepth = DEFAULT_GROUP.treeDepth

(* C20: the store is created with the groupId and treeDepth of DEFAULT_GROUP
   and every file that holds a group state holds these two values; whatever
   is called and whatever happens to the files, the cached state, the
   state in each file and every state getGroupData returns keep this
   groupId and treeDepth *)
C20_IdAndDepthFixed ==
  /\ SameIdAndDepth(CacheView(1))
  /\ \A path \in Paths : SameIdAndDepth(files[path].data)
  /\ (last.op = "getGroupData" /\ ~last.exc) => SameIdAndDepth(last.view)

(* a reset has run in a process whose files were changed under it, and the
   cache holds a state *)
C20_ResetAfterForeignFile ==
  /\ last.op = "resetGroupData" /\ ~last.exc
  /\ env.tampers > 0
  /\ CacheView(1).obj /\ SameIdAndDepth(CacheView(1))

(* s and c are different strings after trimming that denote the same integer *)
SameInteger(s, c) ==
  /\ Trim(s) # Trim(c)
  /\ BigIntOf(s).ok /\ BigIntOf(c).ok
  /\ BigIntOf(s).v = BigIntOf(c).v

(* C21: duplicate detection is by string, not by value: addMember of a
   string that is not a member, while a member denotes the same integer in
   another spelling, returns true and appends the string *)
C21_ExactStringDuplicateDetection ==
  [][(/\ last'.op = "addMember"
      /\ ~IsMember(PeekOf(mem[1], files, now), last'.arg)
      /\ \E i \in 1..Len(PeekOf(mem[1], files, now).members) :
           SameInteger(PeekOf(mem[1], files, now).members[i], last'.arg))
       => /\ ~last'.exc /\ last'.ret = 1
          /\ PeekOf(mem'[1], files', now').members
               = Append(PeekOf(mem[1], files, now).members, last'.arg)
          /\ files'[GROUP_FILE].data.members
               = Append(PeekOf(mem[1], files, now).members, last'.arg)]_vars

(* "042" has been added after "42" and both are members, in cache and file *)
C21_BothSpellingsMembers ==
  /\ last.op = "addMember" /\ last.arg = S042 /\ ~last.exc /\ last.ret = 1
  /\ CacheView(1).members = <<S42, S042>>
  /\ files[GROUP_FILE].data.members = <<S42, S042>>

-----------------------------------------------------------------------------
(* Identity derivation: lib/semaphore/identity.js in its two versions
   (v1: lines 11-37 of identity.js, v3: the HKDF version with the salted
   HMAC) and the random seed of lib/security/crypto.js.  The HMAC, the KDF,
   the hash and the commitment of the libraries are injective and
   uninterpreted: a value is the record of what it was computed from. *)

Bar == <<"|">>

(* String.prototype.toLowerCase over the letters of the model *)
Lower(s) == [i \in 1..Len(s) |-> IF s[i] = "A" THEN "a" ELSE s[i]]

Hmac(key, msg) == [hmacKey |-> key, msg |-> msg]
Hkdf(ikm, salt, info) == [ikm |-> ikm, salt |-> salt, info |-> info]
Sha256(data, more) == [data |-> data, more |-> more]

(* new Identity(privateKey): the commitment is a function of the key *)
IdentityOf(privateKey) ==
  [exc |-> FALSE, privateKey |-> privateKey,
   commitment |-> [commitmentOf |-> privateKey]]

NoIdentity ==
  [exc |-> TRUE, privateKey |-> [none |-> TRUE], commitment |-> [none |-> TRUE]]

(* (process.env.IDENTITY_DERIVATION || 'sub+email').toLowerCase() *)
derivationStrategy(cfg) ==
  CASE cfg.strategy = "" -> "sub+email"
    [] cfg.strategy = "SUB" -> "sub"
    [] OTHER -> cfg.strategy

(* generateDeterministicIdentity(auth0Sub, appSecret, userEmail, infoLabel)
   of the v3 file; cfg is process.env *)
generateDeterministicIdentity_v3(auth0Sub, appSecret, userEmail, infoLabel, cfg) ==
  LET Salted(saltInput) ==
        IdentityOf(Hkdf(appSecret, Hmac(appSecret, saltInput), infoLabel))
      Prefix == cfg.issuer \o Bar \o cfg.clientId \o Bar
      Normalized(normalizedEmail) ==
        CASE derivationStrategy(cfg) = "email" -> Salted(Prefix \o normalizedEmail)
          [] derivationStrategy(cfg) = "sub" -> Salted(Prefix \o auth0Sub)
          [] OTHER -> Salted(Prefix \o auth0Sub \o Bar \o normalizedEmail)
  IN IF auth0Sub = <<>> \/ appSecret = <<>> THEN NoIdentity
     ELSE Normalized(Lower(Trim(userEmail)))

(* generateDeterministicIdentity(auth0Sub, appSecret, salt) of identity.js *)
generateDeterministicIdentity_v1(auth0Sub, appSecret, salt) ==
  IdentityOf(Hkdf(appSecret, auth0Sub, salt))

(* generateSecureSeed(userId, appSecret) of crypto.js: rnd stands for the
   bytes crypto.randomBytes hands out in this call, ts for Date.now() *)
generateSecureSeed(userId, appSecret, rnd, ts) ==
  IF userId = <<>> \/ appSecret = <<>> THEN NoIdentity
  ELSE IdentityOf(Sha256(Hkdf(<<appSecret, userId, rnd>>, rnd, "semaphore-seed-v2"), ts))

(* one derivation with the inputs in, in the code version ver *)
Derivation(ver, in, cfg, rnd, ts) ==
  CASE ver = "v3" -> generateDeterministicIdentity_v3(in.sub, in.secret, in.email,
                                                      in.label, cfg)
    [] ver = "v1" -> generateDeterministicIdentity_v1(in.sub, in.secret, in.label)
    [] OTHER -> generateSecureSeed(in.sub, in.secret, rnd, ts)

Subs == {<<"u">>, <<"a">>}
Secrets == {<<"k">>, <<"q">>}
Emails == {<<"a">>, <<"A">>, <<"b">>}
LabelV1 == <<"semaphore-identity-v1">>
LabelV3 == <<"semaphore-identity-v3">>
Labels == {LabelV3}
Strategies == {"", "sub", "email", "SUB"}
Issuers == {<<>>, <<"i">>}

NoDerivation ==
  [in |-> [sub |-> <<>>, secret |-> <<>>, email |-> <<>>, strategy |-> "",
           label |-> <<>>],
   out |-> NoIdentity]

InitIdentity ==
  /\ variant = "I"
  /\ mem = [p \in Procs |-> InitMem]
  /\ files = [p \in Paths |-> Absent]
  /\ now = 1
  /\ env = [ticks |-> 0, tampers |-> 0]
  /\ tasks = [t \in Tasks |-> NoTask]
  /\ last = NoObs
  /\ \E ver \in {"v1", "v3", "seed"}, strategy \in Strategies :
       sec = [part |-> "identity", ver |-> ver,
              cfg |-> [issuer |-> <<>>, clientId |-> <<"c">>,
                       strategy |-> strategy],
              clock |-> 0, deploys |-> 0,
              cur |-> NoDerivation, prev |-> NoDerivation]

(* a derivation is made; the one before it is kept for comparison *)
Derive ==
  \E sub \in Subs, secret \in Secrets, email \in Emails, label \in Labels,
     rnd \in (IF sec.ver = "seed" THEN {0, 1} ELSE {0}) :
    LET in == [sub |-> sub, secret |-> secret, email |-> email,
               strategy |-> sec.cfg.strategy, label |-> label]
    IN /\ sec' = [sec EXCEPT !.prev = sec.cur,
                             !.cur = [in |-> in,
                                      out |-> Derivation(sec.ver, in, sec.cfg, rnd,
                                                         sec.clock)]]
       /\ UNCHANGED <<variant, mem, files, now, env, tasks, last>>

(* the process is restarted under another configuration of the environment *)
Deploy ==
  \E issuer \in Issuers, strategy \in Strategies :
    /\ sec.deploys < MaxDeploys
    /\ sec' = [sec EXCEPT !.cfg.issuer = issuer, !.cfg.strategy = strategy,
                          !.deploys = @ + 1]
    /\ UNCHANGED <<variant, mem, files, now, env, tasks, last>>

ClockTick ==
  /\ sec.clock < MaxClock
  /\ sec' = [sec EXCEPT !.clock = @ + 1]
  /\ UNCHANGED <<variant, mem, files, now, env, tasks, last>>

NextIdentity == Derive \/ Deploy \/ ClockTick

SpecIdentity == InitIdentity /\ [][NextIdentity]_vars

(* C22: two derivations with the same subject id, application secret,
   auxiliary identifier, strategy and context label yield the same private
   scalar and the same commitment, whatever else differs between them *)
C22_DeterministicIdentity ==
  (/\ sec.part = "identity"
   /\ ~sec.cur.out.exc /\ ~sec.prev.out.exc
   /\ sec.cur.in = sec.prev.in)
    => /\ sec.cur.out.privateKey = sec.prev.out.privateKey
       /\ sec.cur.out.commitment = sec.prev.out.commitment

(* the two last derivations succeeded and their inputs differ in one input
   only *)
DifferInOneInput ==
  /\ sec.part = "identity"
  /\ ~sec.cur.out.exc /\ ~sec.prev.out.exc
  /\ Cardinality({f \in DOMAIN sec.cur.in : sec.cur.in[f] # sec.prev.in[f]}) = 1

(* C23: two derivations whose inputs differ in exactly one of subject id,
   application secret, auxiliary identifier, strategy and context label
   yield different commitments *)
C23_InputSensitivity ==
  DifferInOneInput => sec.cur.out.commitment # sec.prev.out.commitment

-----------------------------------------------------------------------------
(* The identity endpoints: pages/api/zk/identity/init.js and retrieve.js,
   the older init handler that seals the identity data into its response,
   and the proof endpoint, over either version of lib/semaphore/identity.js.
   Undefined stands for an argument that is not passed. *)

Undefined == <<"undefined">>

(* generateDeterministicIdentity(auth0Sub, appSecret, third) as bound by the
   import: the third parameter is userEmail in v3 and the HKDF label in v1 *)
generateDeterministicIdentity(lib, auth0Sub, appSecret, third, cfg) ==
  IF lib = "v3"
  THEN generateDeterministicIdentity_v3(auth0Sub, appSecret,
         IF third = Undefined THEN <<>> ELSE third, LabelV3, cfg)
  ELSE generateDeterministicIdentity_v1(auth0Sub, appSecret,
         IF third = Undefined THEN LabelV1 ELSE third)

(* retrieveIdentity: v3 hands userEmail on, v1 has two parameters *)
retrieveIdentity(lib, auth0Sub, appSecret, userEmail, cfg) ==
  generateDeterministicIdentity(lib, auth0Sub, appSecret,
                                IF lib = "v3" THEN userEmail ELSE Undefined, cfg)

(* createIdentity(userEmail): generateSecureSeed(userEmail) with appSecret
   undefined, that is falsy *)
createIdentity(userEmail) == generateSecureSeed(userEmail, <<>>, 0, 0)

(* a response: status, the commitment in it, and in which form the trapdoor
   and the nullifier are in it *)
Response(id, form) ==
  IF id.exc
  THEN [status |-> 500, commitment |-> id.commitment, secrets |-> "absent"]
  ELSE [status |-> 200, commitment |-> id.commitment, secrets |-> form]

NoResponse == [status |-> 0, commitment |-> NoIdentity.commitment, secrets |-> "absent"]

(* the handlers; s is req.session.user, k process.env.AUTH0_SECRET *)
Handler(name, lib, s, k, cfg) ==
  CASE name = "init" ->
         Response(generateDeterministicIdentity(lib, s.sub, k, s.email, cfg), "absent")
    [] name = "initSealed" ->
         Response(generateDeterministicIdentity(lib, s.sub, k, Undefined, cfg), "encrypted")
    [] name = "initSeed" -> Response(createIdentity(s.email), "encrypted")
    [] name = "retrieve" ->
         Response(retrieveIdentity(lib, s.sub, k, Undefined, cfg), "absent")
    [] name = "retrievePlain" -> Response(createIdentity(s.email), "plain")
    [] OTHER -> Response(retrieveIdentity(lib, s.sub, k, s.email, cfg), "absent")

Handlers == {"init", "initSealed", "initSeed", "retrieve", "retrievePlain", "proof"}

InitEndpoints ==
  /\ variant = "I"
  /\ mem = [p \in Procs |-> InitMem]
  /\ files = [p \in Paths |-> Absent]
  /\ now = 1
  /\ env = [ticks |-> 0, tampers |-> 0]
  /\ tasks = [t \in Tasks |-> NoTask]
  /\ last = NoObs
  /\ \E lib \in {"v1", "v3"}, strategy \in Strategies, k \in Secrets :
       sec = [part |-> "endpoints", lib |-> lib, secret |-> k,
              cfg |-> [issuer |-> <<>>, clientId |-> <<"c">>,
                       strategy |-> strategy],
              user |-> [sub |-> <<"u">>, email |-> <<"a">>],
              resp |-> [h \in Handlers |-> NoResponse]]

(* another principal logs in *)
Login ==
  \E sub \in Subs, email \in Emails :
    /\ sec.user # [sub |-> sub, email |-> email]
    /\ sec' = [sec EXCEPT !.user = [sub |-> sub, email |-> email],
                          !.resp = [h \in Handlers |-> NoResponse]]
    /\ UNCHANGED <<variant, mem, files, now, env, tasks, last>>

(* the logged-in principal calls an endpoint *)
Call ==
  \E h \in Handlers :
    /\ sec' = [sec EXCEPT !.resp[h] = Handler(h, sec.lib, sec.user, sec.secret,
                                             sec.cfg)]
    /\ UNCHANGED <<variant, mem, files, now, env, tasks, last>>

NextEndpoints == Login \/ Call

SpecEndpoints == InitEndpoints /\ [][NextEndpoints]_vars

(* C24: for one principal under one configuration the commitments reported
   by the init endpoint and by the retrieve endpoint and the commitment of
   the identity the proof endpoint uses are equal *)
C24_SameIdentityOnEveryPath ==
  sec.part = "endpoints" =>
    \A g, h \in {"init", "retrieve", "proof"} :
      (sec.resp[g].status = 200 /\ sec.resp[h].status = 200)
        => sec.resp[g].commitment = sec.resp[h].commitment

(* C25: no response of an endpoint holds the trapdoor or the nullifier of an
   identity, in plaintext or encrypted *)
C25_PrivateMaterialStaysServerSide ==
  sec.part = "endpoints" => \A h \in Handlers : sec.resp[h].secrets = "absent"

-----------------------------------------------------------------------------
(* The encryption library, lib/security/encryption.js, in its two versions:
   "old" is encryption.js (createCipher, no check of the key), "new" the
   version with createCipheriv and the length check of the key.  AES-GCM is
   uninterpreted: a ciphertext is the record of the key, the iv and the
   text it was made from, and its tag is the ciphertext it authenticates. *)

(* values of process.env.ENCRYPTION_KEY: unset, shorter than 32 characters,
   32 characters or more that are not 64 hex digits, and two 64-digit keys *)
EnvKeys == {"", "short", "text32", "hex64", "hex64b"}

FailedKey == [env |-> "failed", gen |-> 0]

(* getEncryptionKey(), run when the module is loaded by the n-th process *)
getEncryptionKey(lib, envKey, n) ==
  IF envKey # ""
  THEN IF lib = "new" /\ envKey = "short" THEN FailedKey
       ELSE [env |-> envKey, gen |-> 0]
  ELSE [env |-> "", gen |-> n]

(* Buffer.from(key, 'hex') has the 32 bytes createCipheriv asks for *)
Decodes32(key) == key.gen > 0 \/ key.env \in {"hex64", "hex64b"}

(* the key createCipher(iv)/createDecipher(iv) accept in this version *)
KeyAccepted(lib, key) == key # FailedKey /\ (lib = "old" \/ Decodes32(key))

Ct(k, iv, p) == [ok |-> TRUE, k |-> k, iv |-> iv, p |-> p]
NoCt == [ok |-> FALSE, k |-> FailedKey, iv |-> 0, p |-> <<>>]
NoBlob == [encrypted |-> NoCt, iv |-> 0, authTag |-> NoCt]
Raised == [exc |-> TRUE, text |-> <<>>, blob |-> NoBlob]

(* the iv the cipher runs with: createCipher derives it from the key (0),
   createCipheriv takes the one given *)
CipherIv(lib, iv) == IF lib = "old" THEN 0 ELSE iv

(* encrypt(text); iv stands for crypto.randomBytes(16) *)
encrypt(lib, key, text, iv) ==
  IF text = <<>> \/ ~KeyAccepted(lib, key) THEN Raised
  ELSE [exc |-> FALSE, text |-> text,
        blob |-> [encrypted |-> Ct(key, CipherIv(lib, iv), text), iv |-> iv,
                  authTag |-> Ct(key, CipherIv(lib, iv), text)]]

(* first a decrypt that always runs with the iv derived from the key *)
decrypt_derivedIv(lib, key, blob) ==
  IF ~blob.encrypted.ok \/ ~KeyAccepted(lib, key) THEN Raised
  ELSE IF /\ blob.encrypted.k = key
          /\ blob.encrypted.iv = 0
          /\ blob.authTag = blob.encrypted
       THEN [exc |-> FALSE, text |-> blob.encrypted.p, blob |-> blob]
       ELSE Raised

(* decrypt(encryptedData): final() throws unless key, iv and tag are those
   of the ciphertext *)
decrypt(lib, key, blob) ==
  IF ~blob.encrypted.ok \/ ~KeyAccepted(lib, key) THEN Raised
  ELSE IF /\ blob.encrypted.k = key
          /\ blob.encrypted.iv = CipherIv(lib, blob.iv)
          /\ blob.authTag = blob.encrypted
       THEN [exc |-> FALSE, text |-> blob.encrypted.p, blob |-> blob]
       ELSE Raised

Payloads == {<<>>, <<"p">>, <<"q">>}

InitCodec ==
  /\ variant = "I"
  /\ mem = [p \in Procs |-> InitMem]
  /\ files = [p \in Paths |-> Absent]
  /\ now = 1
  /\ env = [ticks |-> 0, tampers |-> 0]
  /\ tasks = [t \in Tasks |-> NoTask]
  /\ last = NoObs
  /\ \E lib \in {"old", "new"}, envKey \in EnvKeys :
       sec = [part |-> "codec", lib |-> lib, envKey |-> envKey, starts |-> 1,
              key |-> getEncryptionKey(lib, envKey, 1), op |-> "start",
              text |-> <<>>, blob |-> NoBlob, blobKey |-> FailedKey,
              blobEnv |-> "", tampered |-> "none", out |-> Raised]

(* the process ends and the next one loads the module, under the same or
   another configuration; the blob stays where it was persisted *)
Start ==
  \E envKey \in EnvKeys :
    /\ sec.starts < MaxStarts
    /\ sec' = [sec EXCEPT !.envKey = envKey, !.starts = @ + 1, !.op = "start",
                          !.key = getEncryptionKey(sec.lib, envKey, sec.starts + 1)]
    /\ UNCHANGED <<variant, mem, files, now, env, tasks, last>>

Encrypt ==
  \E text \in Payloads, iv \in {1, 2} :
    LET Done(r) ==
          sec' = [sec EXCEPT !.op = "encrypt", !.text = text, !.out = r,
                             !.blob = r.blob, !.blobKey = sec.key,
                             !.blobEnv = sec.envKey, !.tampered = "none"]
    IN /\ Done(encrypt(sec.lib, sec.key, text, iv))
       /\ UNCHANGED <<variant, mem, files, now, env, tasks, last>>

(* one field of the blob is changed to a different value *)
TamperBlob ==
  \E field \in {"encrypted", "iv", "authTag"} :
    /\ sec.blob.encrypted.ok /\ sec.tampered = "none"
    /\ sec' = [sec EXCEPT
                 !.op = "tamper", !.tampered = field,
                 !.blob = CASE field = "iv" -> [sec.blob EXCEPT !.iv = 3 - @]
                            [] field = "encrypted" ->
                                 [sec.blob EXCEPT !.encrypted.p = @ \o <<"x">>]
                            [] OTHER ->
                                 [sec.blob EXCEPT !.authTag.p = @ \o <<"x">>]]
    /\ UNCHANGED <<variant, mem, files, now, env, tasks, last>>

Decrypt ==
  /\ sec.blob.encrypted.ok
  /\ sec' = [sec EXCEPT !.op = "decrypt",
                        !.out = decrypt(sec.lib, sec.key, sec.blob)]
  /\ UNCHANGED <<variant, mem, files, now, env, tasks, last>>

NextCodec == Start \/ Encrypt \/ TamperBlob \/ Decrypt

SpecCodec == InitCodec /\ [][NextCodec]_vars

(* the process runs with a key the cipher of its version accepts *)
ValidKey == sec.part = "codec" /\ KeyAccepted(sec.lib, sec.key)

(* the blob is decrypted as encrypt made it, by the key it was made with *)
Untouched == sec.tampered = "none" /\ sec.blobKey = sec.key

(* C26: with a valid key, encrypt takes every payload, the empty one
   included, and decrypt of the blob returns the payload *)
C26_CodecRoundTrip ==
  ValidKey =>
    /\ sec.op = "encrypt" => ~sec.out.exc
    /\ (sec.op = "decrypt" /\ Untouched)
         => ~sec.out.exc /\ sec.out.text = sec.text

(* C26 as amended: with a valid key, encrypt takes every payload but the
   empty one, for which it raises, and decrypt of the blob returns the
   payload *)
C26_NonEmptyRoundTrip ==
  ValidKey =>
    /\ sec.op = "encrypt" => (sec.out.exc <=> sec.text = <<>>)
    /\ (sec.op = "decrypt" /\ Untouched)
         => ~sec.out.exc /\ sec.out.text = sec.text

(* a payload has gone through encrypt and decrypt *)
C26_RoundTripDone ==
  /\ ValidKey /\ sec.op = "decrypt" /\ Untouched
  /\ sec.text = <<"p">> /\ sec.out.text = <<"p">> /\ ~sec.out.exc

(* C27: once one of the fields encrypted, iv and authTag of a blob made by
   encrypt has been changed to a different value, decrypt of the blob
   raises an error and returns no text *)
C27_TamperDetection ==
  (sec.part = "codec" /\ sec.op = "decrypt" /\ sec.tampered # "none")
    => sec.out.exc

(* the configuration names a key of exactly the length of the algorithm *)
ExactKey(envKey) == envKey \in {"hex64", "hex64b"}

(* C28: a process whose ENCRYPTION_KEY is missing or does not decode to the
   key length of the algorithm fails to initialise, and a blob persisted by
   one process is decrypted by any later process started with the same
   configuration *)
C28_KeyConfigurationFailClosed ==
  sec.part = "codec" =>
    /\ ~ExactKey(sec.envKey) => sec.key = FailedKey
    /\ (sec.op = "decrypt" /\ sec.tampered = "none" /\ sec.blobEnv = sec.envKey)
         => ~sec.out.exc

-----------------------------------------------------------------------------
(* Sealing of records, lib/security/dataEncryption.js over the two versions
   of encryptSensitiveFields.  A value of a record is undefined, a string,
   the number 0 or the empty array; v is what toString() gives. *)

Undef == [kind |-> "undef", v |-> <<>>, blob |-> NoBlob]
Str(s) == [kind |-> "str", v |-> s, blob |-> NoBlob]
Num0 == [kind |-> "num", v |-> <<"0">>, blob |-> NoBlob]
EmptyArr == [kind |-> "arr", v |-> <<>>, blob |-> NoBlob]
Sealed(b) == [kind |-> "blob", v |-> <<"[object Object]">>, blob |-> b]

(* if (x) *)
Truthy(x) ==
  \/ x.kind \in {"arr", "blob"}
  \/ x.kind = "str" /\ x.v # <<>>
  \/ x.kind = "num" /\ x.v # <<"0">>

(* x !== undefined && x !== null *)
Defined(x) == x.kind # "undef"

(* two of the nine names of SENSITIVE_FIELDS *)
SENSITIVE_FIELDS == <<"trapdoor", "userEmail">>

RecFields == Range(SENSITIVE_FIELDS) \cup {"commitment"}
NoRec == [f \in RecFields |-> Undef]
NoFile == [written |-> FALSE, rec |-> NoRec, meta |-> <<>>]

(* the test encryptSensitiveFields makes before it encrypts a field *)
ToEncrypt(lib, x) == IF lib = "old" THEN Truthy(x) ELSE Defined(x)

(* the loop of encryptSensitiveFields over result from field i on; when
   encrypt throws, rec is result as the loop left it *)
RECURSIVE sealFrom(_, _, _, _, _, _)
sealFrom(lib, key, result, fields, ivs, i) ==
  IF i > Len(fields) THEN [exc |-> FALSE, rec |-> result]
  ELSE IF ~ToEncrypt(lib, result[fields[i]])
       THEN sealFrom(lib, key, result, fields, ivs, i + 1)
       ELSE IF encrypt(lib, key, result[fields[i]].v, ivs[fields[i]]).exc
            THEN [exc |-> TRUE, rec |-> result]
            ELSE sealFrom(lib, key,
                          [result EXCEPT ![fields[i]] =
                             Sealed(encrypt(lib, key, result[fields[i]].v,
                                            ivs[fields[i]]).blob)],
                          fields, ivs, i + 1)

Sealing(exc, rec, obj, meta, file) ==
  [exc |-> exc, rec |-> IF exc THEN NoRec ELSE rec, obj |-> obj,
   meta |-> IF exc THEN <<>> ELSE meta, file |-> file]

(* first an encryptSensitiveFields whose result is obj itself, not a copy *)
encryptSensitiveFields_inPlace(lib, key, obj, fields, ivs, file) ==
  Sealing(sealFrom(lib, key, obj, fields, ivs, 1).exc,
          sealFrom(lib, key, obj, fields, ivs, 1).rec,
          sealFrom(lib, key, obj, fields, ivs, 1).rec, <<>>, file)

(* encryptSensitiveFields(obj, sensitiveFields): result = { ...obj }; obj is
   the argument as the call leaves it *)
encryptSensitiveFields(lib, key, obj, fields, ivs, file) ==
  Sealing(sealFrom(lib, key, obj, fields, ivs, 1).exc,
          sealFrom(lib, key, obj, fields, ivs, 1).rec, obj, <<>>, file)

(* sensitiveFields.filter(field => data[field] !== undefined && ... !== null) *)
EncryptedFields(data, fields) == SelectSeq(fields, LAMBDA f : Defined(data[f]))

(* encryptIdentityData(identityData) *)
encryptIdentityData(lib, key, data, ivs, file) ==
  Sealing(encryptSensitiveFields(lib, key, data, SENSITIVE_FIELDS, ivs, file).exc,
          encryptSensitiveFields(lib, key, data, SENSITIVE_FIELDS, ivs, file).rec,
          encryptSensitiveFields(lib, key, data, SENSITIVE_FIELDS, ivs, file).obj,
          EncryptedFields(data, SENSITIVE_FIELDS), file)

(* secureStoreToFile(filePath, data, sensitiveFields): the file is written
   after the record is sealed and its metadata attached *)
secureStoreToFile(lib, key, data, fields, ivs, file) ==
  Sealing(encryptSensitiveFields(lib, key, data, fields, ivs, file).exc,
          encryptSensitiveFields(lib, key, data, fields, ivs, file).rec,
          encryptSensitiveFields(lib, key, data, fields, ivs, file).obj,
          EncryptedFields(data, fields),
          IF encryptSensitiveFields(lib, key, data, fields, ivs, file).exc
          THEN file
          ELSE [written |-> TRUE,
                rec |-> encryptSensitiveFields(lib, key, data, fields, ivs, file).rec,
                meta |-> EncryptedFields(data, fields)])

FieldValues == {Undef, Str(<<"s">>), Str(<<>>), Num0, EmptyArr}
FieldLists == {SENSITIVE_FIELDS, <<"userEmail">>}

(* what crypto.randomBytes(16) gives during a sealing call *)
SealIvs == {1}

Records ==
  {[f \in RecFields |-> IF f = "commitment" THEN Str(<<"c">>) ELSE r[f]] :
     r \in [Range(SENSITIVE_FIELDS) -> FieldValues]}

(* no record has been opened since the last sealing call *)
NotOpened == [done |-> FALSE, route |-> "none", exc |-> FALSE, rec |-> NoRec,
              extra |-> {}]

InitSeal ==
  /\ variant = "I"
  /\ mem = [p \in Procs |-> InitMem]
  /\ files = [p \in Paths |-> Absent]
  /\ now = 1
  /\ env = [ticks |-> 0, tampers |-> 0]
  /\ tasks = [t \in Tasks |-> NoTask]
  /\ last = NoObs
  /\ \E lib \in {"old", "new"}, envKey \in {"hex64", "text32"} :
       sec = [part |-> "seal", lib |-> lib,
              key |-> getEncryptionKey(lib, envKey, 1), op |-> "start",
              fields |-> <<>>, data |-> NoRec, filePre |-> NoFile,
              calls |-> 0, out |-> Sealing(TRUE, NoRec, NoRec, <<>>, NoFile),
              opened |-> NotOpened]

(* the state after one call: data is the argument before it, out.obj the
   argument after it *)
Called(op, fields, data, r) ==
  [sec EXCEPT !.op = op, !.fields = fields, !.data = data,
              !.filePre = sec.out.file, !.calls = @ + 1, !.out = r,
              !.opened = NotOpened]

SealFields ==
  \E data \in Records, fields \in FieldLists, iv \in SealIvs :
    /\ sec.calls < MaxCalls
    /\ sec' = Called("encryptSensitiveFields", fields, data,
                     encryptSensitiveFields(sec.lib, sec.key, data, fields,
                                            [f \in RecFields |-> iv],
                                            sec.out.file))
    /\ UNCHANGED <<variant, mem, files, now, env, tasks, last>>

SealIdentity ==
  \E data \in Records, iv \in SealIvs :
    /\ sec.calls < MaxCalls
    /\ sec' = Called("encryptIdentityData", SENSITIVE_FIELDS, data,
                     encryptIdentityData(sec.lib, sec.key, data,
                                         [f \in RecFields |-> iv],
                                         sec.out.file))
    /\ UNCHANGED <<variant, mem, files, now, env, tasks, last>>

StoreToFile ==
  \E data \in Records, fields \in FieldLists, iv \in SealIvs :
    /\ sec.calls < MaxCalls
    /\ sec' = Called("secureStoreToFile", fields, data,
                     secureStoreToFile(sec.lib, sec.key, data, fields,
                                       [f \in RecFields |-> iv],
                                       sec.out.file))
    /\ UNCHANGED <<variant, mem, files, now, env, tasks, last>>

NextSeal == SealFields \/ SealIdentity \/ StoreToFile

SpecSeal == InitSeal /\ [][NextSeal]_vars

(* the fields of a record whose values are ciphertext blobs *)
BlobFields(rec) == {f \in RecFields : rec[f].kind = "blob"}

(* C29: the names a sealing function lists in _encryptedFields are exactly
   the fields of the sealed record whose values were replaced by blobs *)
C29_SealingMetadataExact ==
  (/\ sec.part = "seal"
   /\ sec.op \in {"encryptIdentityData", "secureStoreToFile"}
   /\ ~sec.out.exc)
    => /\ Range(sec.out.meta) = BlobFields(sec.out.rec)
       /\ sec.op = "secureStoreToFile"
            => Range(sec.out.file.meta) = BlobFields(sec.out.file.rec)

(* encrypt throws for one of the listed fields that are to be encrypted *)
FailsOn(lib, key, data, fields) ==
  \E i \in DOMAIN fields :
    /\ ToEncrypt(lib, data[fields[i]])
    /\ encrypt(lib, key, data[fields[i]].v, 1).exc

(* C30: a sealing call in which the encryption of a field fails raises,
   returns no record, leaves its argument as it was and, in
   secureStoreToFile, leaves the file as it was *)
C30_SealingAllOrNothing ==
  (/\ sec.part = "seal" /\ sec.op # "start"
   /\ FailsOn(sec.lib, sec.key, sec.data, sec.fields))
    => /\ sec.out.exc
       /\ sec.out.rec = NoRec
       /\ sec.out.obj = sec.data
       /\ sec.out.file = sec.filePre

(* secureStoreToFile has failed on the second field of its list, after a
   store that wrote the file *)
C30_StoreFailedOnLaterField ==
  /\ sec.part = "seal" /\ sec.op = "secureStoreToFile" /\ sec.out.exc
  /\ sec.filePre.written
  /\ sec.fields = SENSITIVE_FIELDS
  /\ sec.data["trapdoor"] = Str(<<"s">>)
  /\ sec.data["userEmail"] = EmptyArr

-----------------------------------------------------------------------------
(* Opening of sealed records: decryptSensitiveFields of the two versions of
   the library, decryptIdentityData and secureLoadFromFile.  A sealed object
   holds, besides the fields of the record, the fields its sealing function
   added; they are kept by name. *)

(* the fields encryptIdentityData adds to the copy of its argument *)
IdentityExtras == {"encryptedAt", "version", "_encrypted", "_encryptedFields"}

(* the fields secureStoreToFile adds to the sealed record *)
StoredExtras == {"_encrypted", "_encryptedFields", "_storedAt"}

(* result[field] && typeof result[field] === 'object' &&
   result[field].encrypted *)
ToDecrypt(x) == Truthy(x) /\ x.kind = "blob" /\ x.blob.encrypted.ok

(* the loop of decryptSensitiveFields over result from field i on *)
RECURSIVE openFrom(_, _, _, _, _)
openFrom(lib, key, result, fields, i) ==
  IF i > Len(fields) THEN [exc |-> FALSE, rec |-> result]
  ELSE IF ~ToDecrypt(result[fields[i]])
       THEN openFrom(lib, key, result, fields, i + 1)
       ELSE IF decrypt(lib, key, result[fields[i]].blob).exc
            THEN [exc |-> TRUE, rec |-> result]
            ELSE openFrom(lib, key,
                          [result EXCEPT ![fields[i]] =
                             Str(decrypt(lib, key, result[fields[i]].blob).text)],
                          fields, i + 1)

Opening(route, exc, rec, extra) ==
  [done |-> TRUE, route |-> route, exc |-> exc,
   rec |-> IF exc THEN NoRec ELSE rec,
   extra |-> IF exc THEN {} ELSE extra]

(* decryptSensitiveFields(obj, sensitiveFields); extra are the names of the
   fields of obj that are not fields of the record *)
decryptSensitiveFields(lib, key, obj, fields, extra) ==
  Opening("fields", openFrom(lib, key, obj, fields, 1).exc,
          openFrom(lib, key, obj, fields, 1).rec, extra)

(* decryptIdentityData(encryptedData) of an object whose _encrypted is true
   and whose _encryptedFields is meta *)
decryptIdentityData(lib, key, obj, meta, extra) ==
  Opening("identity",
          decryptSensitiveFields(lib, key, obj, meta, extra).exc,
          decryptSensitiveFields(lib, key, obj, meta, extra).rec,
          extra \ {"_encrypted", "_encryptedFields"})

(* secureLoadFromFile(filePath) of a file secureStoreToFile wrote; a file
   that does not exist raises *)
secureLoadFromFile(lib, key, file, extra) ==
  IF ~file.written THEN Opening("file", TRUE, NoRec, {})
  ELSE Opening("file",
               decryptSensitiveFields(lib, key, file.rec, file.meta, extra).exc,
               decryptSensitiveFields(lib, key, file.rec, file.meta, extra).rec,
               extra \ {"_encrypted", "_encryptedFields", "_storedAt"})

(* decryptSensitiveFields of the record the last encryptSensitiveFields
   returned, with the same list of fields *)
OpenFields ==
  /\ sec.op = "encryptSensitiveFields" /\ ~sec.out.exc /\ ~sec.opened.done
  /\ sec' = [sec EXCEPT !.opened =
               decryptSensitiveFields(sec.lib, sec.key, sec.out.rec,
                                      sec.fields, {})]
  /\ UNCHANGED <<variant, mem, files, now, env, tasks, last>>

(* decryptIdentityData of the object the last encryptIdentityData returned *)
OpenIdentity ==
  /\ sec.op = "encryptIdentityData" /\ ~sec.out.exc /\ ~sec.opened.done
  /\ sec' = [sec EXCEPT !.opened =
               decryptIdentityData(sec.lib, sec.key, sec.out.rec,
                                   sec.out.meta, IdentityExtras)]
  /\ UNCHANGED <<variant, mem, files, now, env, tasks, last>>

(* secureLoadFromFile of the path the last secureStoreToFile was given *)
LoadFromFile ==
  /\ sec.op = "secureStoreToFile" /\ ~sec.opened.done
  /\ sec' = [sec EXCEPT !.opened =
               secureLoadFromFile(sec.lib, sec.key, sec.out.file,
                                  StoredExtras)]
  /\ UNCHANGED <<variant, mem, files, now, env, tasks, last>>

NextOpen ==
  \/ SealFields \/ SealIdentity \/ StoreToFile
  \/ OpenFields \/ OpenIdentity \/ LoadFromFile

SpecOpen == InitSeal /\ [][NextOpen]_vars

(* C35: opening the sealed form of a record gives, for each field that was
   sealed, the string of the original value, gives every other field of the
   record as it was, and neither adds nor removes a field *)
C35_SealedRoundTrip ==
  (/\ sec.part = "seal" /\ sec.opened.done /\ ~sec.out.exc)
    => /\ ~sec.opened.exc
       /\ \A f \in RecFields :
            sec.opened.rec[f] =
              IF f \in BlobFields(sec.out.rec) THEN Str(sec.data[f].v)
              ELSE sec.data[f]
       /\ sec.opened.extra = {}

-----------------------------------------------------------------------------
(* Properties of the store under failing writes and of the recomputed root *)

(* C33: an addMember that raises because a file write failed leaves the
   state getGroupData returns in the same process, and so the root
   getMerkleRoot computes from it, as they were before the call *)
C33_FailedPersistenceAtomic ==
  [][(last'.op = "addMember" /\ last'.exc /\ last'.faulted)
       => /\ PeekOf(mem'[1], files', now').members
               = PeekOf(mem[1], files, now).members
          /\ PeekOf(mem'[1], files', now').root
               = PeekOf(mem[1], files, now).root]_vars

(* C34: getMerkleRoot returns, and the root it returns is the root field of
   the state getGroupData returns *)
C34_RootAgreement ==
  last.op = "getMerkleRoot"
    => /\ ~last.exc
       /\ last.root = Peek(1).root

-----------------------------------------------------------------------------
(* The page pages/index.js: the state of the component Home and the
   requests its handlers have sent and not yet seen answered.  The server is
   the environment: every request is answered, with success or with an
   error.  stale, idFresh and proofFresh are history only: a request is
   stale once a reset has run after it was sent, and the identity or the
   proof is fresh when it came from a request that was not. *)

NoReq == [kind |-> "none", stale |-> FALSE]
NoEvent == [kind |-> "none", what |-> "none", ok |-> FALSE]

(* the handler of the button shown at a step *)
StepAction(n) ==
  CASE n = 1 -> "init" [] n = 2 -> "join" [] n = 3 -> "details"
    [] n = 4 -> "prove" [] OTHER -> "none"

InitPage ==
  /\ variant = "I"
  /\ mem = [p \in Procs |-> InitMem]
  /\ files = [p \in Paths |-> Absent]
  /\ now = 1
  /\ env = [ticks |-> 0, tampers |-> 0]
  /\ tasks = [t \in Tasks |-> NoTask]
  /\ last = NoObs
  /\ sec = [part |-> "page", currentStep |-> 1, serverIdentity |-> FALSE,
            serverIdentityData |-> FALSE, groupDetails |-> FALSE,
            verificationResult |-> "none", isLoadingFlow |-> FALSE,
            reqs |-> [i \in 1..MaxReqs |-> NoReq], ev |-> NoEvent,
            idFresh |-> FALSE, proofFresh |-> FALSE]

FreeSlot == \E i \in 1..MaxReqs : sec.reqs[i].kind = "none"

(* setIsLoadingFlow(true) and the fetch of a handler *)
Sent(kind) ==
  [sec EXCEPT !.isLoadingFlow = TRUE,
              !.ev = [kind |-> "click", what |-> kind, ok |-> FALSE],
              !.reqs[CHOOSE i \in 1..MaxReqs : sec.reqs[i].kind = "none"] =
                 [kind |-> kind, stale |-> FALSE]]

(* a click on the button of the current step; the buttons are disabled
   while isLoadingFlow, and joinGroup and handleProveMembership return
   before any request when the identity is missing *)
ClickStep ==
  /\ sec.currentStep \in 1..4 /\ ~sec.isLoadingFlow /\ FreeSlot
  /\ sec' = CASE sec.currentStep = 2 /\ ~sec.serverIdentity ->
                   [sec EXCEPT !.ev = [kind |-> "click", what |-> "join",
                                       ok |-> FALSE]]
              [] sec.currentStep = 4
                   /\ ~(sec.serverIdentity /\ sec.serverIdentityData) ->
                   [sec EXCEPT !.verificationResult = "error",
                               !.proofFresh = FALSE,
                               !.ev = [kind |-> "click", what |-> "prove",
                                       ok |-> FALSE]]
              [] OTHER -> Sent(StepAction(sec.currentStep))
  /\ UNCHANGED <<variant, mem, files, now, env, tasks, last>>

(* resetFlow: the button is never disabled *)
ClickResetFlow ==
  /\ sec' = [sec EXCEPT !.currentStep = 1, !.serverIdentity = FALSE,
                        !.serverIdentityData = FALSE, !.groupDetails = FALSE,
                        !.verificationResult = "none",
                        !.idFresh = FALSE, !.proofFresh = FALSE,
                        !.ev = [kind |-> "click", what |-> "resetFlow",
                                ok |-> TRUE],
                        !.reqs = [i \in 1..MaxReqs |->
                                    IF sec.reqs[i].kind = "none" THEN NoReq
                                    ELSE [sec.reqs[i] EXCEPT !.stale = TRUE]]]
  /\ UNCHANGED <<variant, mem, files, now, env, tasks, last>>

(* resetGroup: the button is never disabled *)
ClickResetGroup ==
  /\ FreeSlot
  /\ sec' = Sent("resetGroup")
  /\ UNCHANGED <<variant, mem, files, now, env, tasks, last>>

(* what the continuation of a handler sets when its request is answered *)
Answered(r, ok) ==
  CASE ~ok /\ r.kind = "prove" ->
         [sec EXCEPT !.verificationResult = "error", !.proofFresh = FALSE]
    [] ~ok -> sec
    [] r.kind = "init" ->
         [sec EXCEPT !.serverIdentity = TRUE, !.serverIdentityData = TRUE,
                     !.idFresh = ~r.stale, !.currentStep = 2]
    [] r.kind = "join" -> [sec EXCEPT !.currentStep = 3]
    [] r.kind = "details" ->
         [sec EXCEPT !.groupDetails = TRUE, !.currentStep = 4]
    [] r.kind = "prove" ->
         [sec EXCEPT !.verificationResult = "ok", !.proofFresh = ~r.stale,
                     !.currentStep = 5]
    [] OTHER ->
         [sec EXCEPT !.groupDetails = FALSE, !.currentStep = 1,
                     !.idFresh = FALSE, !.proofFresh = FALSE]

(* the answer to a request arrives and the handler runs to its end; a
   successful resetGroup makes the other requests in flight stale *)
Respond ==
  \E i \in 1..MaxReqs, ok \in BOOLEAN :
    /\ sec.reqs[i].kind # "none"
    /\ sec' = [Answered(sec.reqs[i], ok) EXCEPT
                 !.isLoadingFlow = FALSE,
                 !.ev = [kind |-> "respond", what |-> sec.reqs[i].kind,
                         ok |-> ok],
                 !.reqs = [j \in 1..MaxReqs |->
                             IF j = i THEN NoReq
                             ELSE IF ok /\ sec.reqs[i].kind = "resetGroup"
                                       /\ sec.reqs[j].kind # "none"
                                  THEN [sec.reqs[j] EXCEPT !.stale = TRUE]
                                  ELSE sec.reqs[j]]]
    /\ UNCHANGED <<variant, mem, files, now, env, tasks, last>>

NextPage == ClickStep \/ ClickResetFlow \/ ClickResetGroup \/ Respond

SpecPage == InitPage /\ [][NextPage]_vars

(* the step changes by one, through the success of the action of the step
   shown, or to 1 through a reset *)
StepInOrder ==
  sec'.currentStep # sec.currentStep =>
    \/ /\ sec'.currentStep = 1
       /\ sec'.ev.what \in {"resetFlow", "resetGroup"}
    \/ /\ sec'.currentStep = sec.currentStep + 1
       /\ sec'.ev.kind = "respond" /\ sec'.ev.ok
       /\ sec'.ev.what = StepAction(sec.currentStep)

(* C31: currentStep changes only from n to n + 1 by the success of the
   action of step n while n is the current step, or to 1 by a reset, and
   step 5 is shown only with an identity and a verified proof of the
   current flow *)
C31_StepsInOrder ==
  [][sec.part = "page"
       => /\ StepInOrder
          /\ sec'.currentStep = 5
               => /\ sec'.serverIdentity /\ sec'.idFresh
                  /\ sec'.verificationResult = "ok" /\ sec'.proofFresh]_vars

-----------------------------------------------------------------------------
(* The rate limiter, lib/security/rateLimit.js.  Time is counted in units of
   five minutes. *)

(* RATE_LIMIT_CONFIG; the windows of one minute of verify and status are
   rounded up to the unit *)
RATE_LIMIT_CONFIG ==
  [default |-> [windowMs |-> 3, maxRequests |-> 100],
   auth |-> [windowMs |-> 3, maxRequests |-> 5],
   zkProof |-> [windowMs |-> 1, maxRequests |-> 3],
   identity |-> [windowMs |-> 2, maxRequests |-> 2],
   group |-> [windowMs |-> 1, maxRequests |-> 10],
   verify |-> [windowMs |-> 1, maxRequests |-> 20],
   status |-> [windowMs |-> 1, maxRequests |-> 60]]

RateTypes == {"identity", "zkProof"}
Clients == {1, 2}

(* the keys `${type}-${clientId}` of rateLimitStore that requests are made
   with *)
RateKeys == {k \in RateTypes \X Clients : k[1] = "identity" \/ k[2] = 1}

NoEntry == [present |-> FALSE, count |-> 0, resetTime |-> 0]

ConfigOf(type) ==
  IF type \in DOMAIN RATE_LIMIT_CONFIG THEN RATE_LIMIT_CONFIG[type]
  ELSE RATE_LIMIT_CONFIG["default"]

(* cleanExpiredEntries() *)
cleanExpiredEntries(store, t) ==
  [k \in DOMAIN store |-> IF store[k].present /\ t > store[k].resetTime
                          THEN NoEntry ELSE store[k]]

(* the entry the request is counted in: the stored one, or a new one when
   there is none or its window is over *)
ClientData(store, key, t) ==
  IF ~store[key].present \/ t > store[key].resetTime
  THEN [present |-> TRUE, count |-> 1,
        resetTime |-> t + ConfigOf(key[1]).windowMs]
  ELSE [store[key] EXCEPT !.count = @ + 1]

(* first a limiter that starts the window again at every request *)
rateLimit_sliding(store, key, t, clean) ==
  [store |-> [(IF clean THEN cleanExpiredEntries(store, t) ELSE store)
                EXCEPT ![key] = [ClientData(store, key, t) EXCEPT
                                   !.resetTime = t + ConfigOf(key[1]).windowMs]],
   next |-> ClientData(store, key, t).count <= ConfigOf(key[1]).maxRequests]

(* rateLimit(type)(req, res, next) at time t for the client of key; clean is
   the draw of Math.random() < 0.1; next tells whether next() is called, the
   answer being 429 otherwise *)
rateLimit(store, key, t, clean) ==
  [store |-> [(IF clean THEN cleanExpiredEntries(store, t) ELSE store)
                EXCEPT ![key] = ClientData(store, key, t)],
   next |-> ClientData(store, key, t).count <= ConfigOf(key[1]).maxRequests]

(* history: the window a request falls in, as counted from the first request
   after the end of the window before, and the requests of the window for
   which the handler ran.  A request at time t belongs to the window opened
   at from when t <= from + windowMs. *)
NoWindow == [open |-> FALSE, from |-> 0, admitted |-> 0]

Opens(w, key, t) == ~w.open \/ t > w.from + ConfigOf(key[1]).windowMs

WindowOf(w, key, t) ==
  IF Opens(w, key, t)
  THEN [open |-> TRUE, from |-> t, admitted |-> 0]
  ELSE w

NoHit == [seen |-> FALSE, key |-> <<"identity", 1>>, next |-> FALSE,
          opened |-> FALSE, countBefore |-> 0, resetBefore |-> 0, resetAfter |-> 0]

InitRate ==
  /\ variant = "I"
  /\ mem = [p \in Procs |-> InitMem]
  /\ files = [p \in Paths |-> Absent]
  /\ now = 1
  /\ env = [ticks |-> 0, tampers |-> 0]
  /\ tasks = [t \in Tasks |-> NoTask]
  /\ last = NoObs
  /\ sec = [part |-> "rate", t |-> 0,
            store |-> [k \in RateKeys |-> NoEntry],
            window |-> [k \in RateKeys |-> NoWindow], hit |-> NoHit]

(* the state after a request of the client of key that the limiter answered
   with r *)
Limited(key, r) ==
  [sec EXCEPT
     !.store = r.store,
     !.window[key] =
        [WindowOf(sec.window[key], key, sec.t) EXCEPT
           !.admitted = IF r.next THEN @ + 1 ELSE @],
     !.hit = [seen |-> TRUE, key |-> key, next |-> r.next,
              opened |-> Opens(sec.window[key], key, sec.t),
              countBefore |-> sec.store[key].count,
              resetBefore |-> sec.store[key].resetTime,
              resetAfter |-> r.store[key].resetTime]]

(* a request of a client to an endpoint of a rate-limit type *)
Hit ==
  \E key \in RateKeys, clean \in BOOLEAN :
    /\ sec.store[key].count < ConfigOf(key[1]).maxRequests + MaxOver
         \/ sec.t > sec.store[key].resetTime
    /\ sec' = Limited(key, rateLimit(sec.store, key, sec.t, clean))
    /\ UNCHANGED <<variant, mem, files, now, env, tasks, last>>

(* Date.now() advances *)
Later ==
  /\ sec.t < MaxNow
  /\ sec' = [sec EXCEPT !.t = @ + 1, !.hit = NoHit]
  /\ UNCHANGED <<variant, mem, files, now, env, tasks, last>>

NextRate == Hit \/ Later

SpecRate == InitRate /\ [][NextRate]_vars

(* C36: in one window the handler runs for at most maxRequests requests of a
   client and type, a request that is answered 429 leaves the end of the
   window where it was, and the first request after the end of a window is
   admitted and counted as the first of a new one *)
C36_RateLimitBound ==
  sec.part = "rate" =>
    /\ \A k \in RateKeys :
         sec.window[k].admitted <= ConfigOf(k[1]).maxRequests
    /\ sec.hit.seen =>
         /\ (~sec.hit.next /\ ~sec.hit.opened)
              => sec.hit.resetAfter = sec.hit.resetBefore
         /\ sec.hit.opened
              => /\ sec.hit.next
                 /\ sec.window[sec.hit.key].admitted = 1
                 /\ sec.store[sec.hit.key].count = 1

(* a client was answered 429 within a window of the identity type and
   admitted again after its end *)
C36_AdmittedAfterWindow ==
  /\ sec.part = "rate" /\ sec.hit.seen /\ sec.hit.next /\ sec.hit.opened
  /\ sec.hit.key = <<"identity", 1>>
  /\ sec.hit.countBefore > ConfigOf("identity").maxRequests
  /\ sec.t = sec.hit.resetBefore + 1

-----------------------------------------------------------------------------
(* The wrappers of the API routes: lib/security/middleware.js in its three
   versions, "simple" (withSession), "full" (withSecurity) and "hardened"
   (withComprehensiveSecurity), and the routes they are applied to. *)

NoConfig == [present |-> FALSE, requireAuth |-> FALSE, allowedMethods |-> {},
             rate |-> "default", schema |-> FALSE]

Config(auth, methods, rate, schema) ==
  [present |-> TRUE, requireAuth |-> auth, allowedMethods |-> methods,
   rate |-> rate, schema |-> schema]

(* securityConfigs[name] of a version; the simple one has no rate limit and
   no schema, the full one no entry proofGeneration *)
securityConfigs(mw, name) ==
  CASE name = "identity" ->
         Config(TRUE, {"POST"}, "identity", mw = "full")
    [] name = "groupMember" ->
         Config(TRUE, {"POST"}, IF mw = "full" THEN "default" ELSE "group",
                mw # "simple")
    [] name = "groupData" ->
         Config(TRUE, {"GET"}, IF mw = "full" THEN "default" ELSE "group", FALSE)
    [] name = "proofGeneration" ->
         IF mw = "full" THEN NoConfig
         ELSE Config(TRUE, {"POST"}, "zkProof", mw = "hardened")
    [] name = "zkProof" ->
         Config(FALSE, {"POST"}, IF mw = "full" THEN "zkProof" ELSE "verify",
                mw # "simple")
    [] name = "groupReset" ->
         Config(TRUE, {"POST"}, IF mw = "full" THEN "auth" ELSE "group", FALSE)
    [] OTHER -> NoConfig

(* the routes and the configuration their handler is wrapped with; the
   handler of membersBare is exported as it is *)
Routes ==
  [identityInit |-> "identity", identityRetrieve |-> "identity",
   groupMembers |-> "groupMember", membersBare |-> "none",
   groupFull |-> "groupData", groupReset |-> "groupReset",
   proofGenerate |-> "proofGeneration", proofZk |-> "zkProof"]

Methods == {"GET", "POST", "OPTIONS"}

Requests ==
  [route : DOMAIN Routes, method : Methods, session : BOOLEAN, valid : BOOLEAN]

(* what happened to a request: the status answered, whether the body of the
   handler ran, whether the promise of the route settles *)
Outcome(status, entered, settles, store) ==
  [status |-> status, entered |-> entered, settles |-> settles, store |-> store]

(* the handler of part_015 lines 1-56, which checks the session itself, in
   the POST branch only *)
membersBare(req, store) ==
  CASE req.method = "OPTIONS" -> Outcome(200, FALSE, TRUE, store)
    [] req.method = "POST" /\ ~req.session -> Outcome(401, FALSE, TRUE, store)
    [] OTHER -> Outcome(200, TRUE, TRUE, store)

(* withSession(handler) and the wrapper withSecurityConfig returns in its
   place when requireAuth is false *)
withSecurityConfig_simple(cfg, req, store) ==
  CASE req.method = "OPTIONS" -> Outcome(200, FALSE, TRUE, store)
    [] cfg.requireAuth /\ ~req.session -> Outcome(401, FALSE, TRUE, store)
    [] OTHER -> Outcome(200, TRUE, TRUE, store)

(* what follows the rate limiter in withSecurity and in
   withComprehensiveSecurity: the one checks the session and then the body,
   the other the body and then the session *)
AfterLimit(mw, cfg, req, store) ==
  CASE mw = "full" /\ cfg.requireAuth /\ ~req.session ->
         Outcome(401, FALSE, TRUE, store)
    [] cfg.schema /\ ~req.valid /\ (mw = "hardened" \/ req.method # "GET") ->
         Outcome(400, FALSE, TRUE, store)
    [] cfg.requireAuth /\ ~req.session -> Outcome(401, FALSE, TRUE, store)
    [] OTHER -> Outcome(200, TRUE, TRUE, store)

(* securedHandler of withSecurity(config) and the handler
   withComprehensiveSecurity returns; when the limiter answers 429 it does
   not call next, and the promise that waits for next stays pending *)
withSecurity(mw, cfg, req, store) ==
  CASE req.method = "OPTIONS" -> Outcome(200, FALSE, TRUE, store)
    [] req.method \notin cfg.allowedMethods -> Outcome(405, FALSE, TRUE, store)
    [] ~rateLimit(store, <<cfg.rate, 1>>, 0, FALSE).next ->
         Outcome(429, FALSE, FALSE,
                 rateLimit(store, <<cfg.rate, 1>>, 0, FALSE).store)
    [] OTHER ->
         AfterLimit(mw, cfg, req,
                    rateLimit(store, <<cfg.rate, 1>>, 0, FALSE).store)

(* the route of a request as the version of the middleware serves it; a
   module whose withSecurityConfig(name) throws serves 500 *)
Serve(mw, req, store) ==
  CASE Routes[req.route] = "none" -> membersBare(req, store)
    [] ~securityConfigs(mw, Routes[req.route]).present ->
         Outcome(500, FALSE, TRUE, store)
    [] mw = "simple" ->
         withSecurityConfig_simple(securityConfigs(mw, Routes[req.route]),
                                   req, store)
    [] OTHER ->
         withSecurity(mw, securityConfigs(mw, Routes[req.route]), req, store)

(* no status has been answered *)
NoAnswer == 0

GateKeys == {<<type, 1>> : type \in DOMAIN RATE_LIMIT_CONFIG}

NoRequest == [route |-> "identityInit", method |-> "OPTIONS",
              session |-> FALSE, valid |-> FALSE]

InitGate ==
  /\ variant = "I"
  /\ mem = [p \in Procs |-> InitMem]
  /\ files = [p \in Paths |-> Absent]
  /\ now = 1
  /\ env = [ticks |-> 0, tampers |-> 0]
  /\ tasks = [t \in Tasks |-> NoTask]
  /\ last = NoObs
  /\ \E mw \in {"simple", "full", "hardened"} :
       sec = [part |-> "gate", mw |-> mw, hits |-> 0, pc |-> "idle",
              store |-> [k \in GateKeys |-> NoEntry], req |-> NoRequest,
              out |-> NoAnswer,
              entered |-> FALSE, settles |-> TRUE]

(* a request arrives and the route runs up to its answer *)
Receive ==
  \E req \in Requests :
    /\ sec.pc # "pending" /\ sec.hits < MaxHits
    /\ sec' = [sec EXCEPT
                 !.hits = @ + 1, !.pc = "pending", !.req = req,
                 !.store = Serve(sec.mw, req, sec.store).store,
                 !.out = Serve(sec.mw, req, sec.store).status,
                 !.entered = Serve(sec.mw, req, sec.store).entered,
                 !.settles = Serve(sec.mw, req, sec.store).settles]
    /\ UNCHANGED <<variant, mem, files, now, env, tasks, last>>

(* the promise the route returned settles *)
Settle ==
  /\ sec.pc = "pending" /\ sec.settles
  /\ sec' = [sec EXCEPT !.pc = "settled"]
  /\ UNCHANGED <<variant, mem, files, now, env, tasks, last>>

(* the caller stops waiting for a promise that stays pending *)
GiveUp ==
  /\ sec.pc = "pending" /\ ~sec.settles
  /\ sec' = [sec EXCEPT !.pc = "abandoned"]
  /\ UNCHANGED <<variant, mem, files, now, env, tasks, last>>

NextGate == Receive \/ Settle \/ GiveUp

SpecGate == InitGate /\ [][NextGate]_vars

(* the routes of the identity, the group and the proof generation *)
ProtectedRoutes == DOMAIN Routes

(* C32: the body of a handler for identity init or retrieve, group member
   addition or listing, group data, group reset or proof generation does not
   run for a request without a valid session *)
C32_AuthenticationRequired ==
  (sec.part = "gate" /\ sec.pc # "idle" /\ sec.req.route \in ProtectedRoutes
     /\ ~sec.req.session)
    => ~sec.entered

(* C39: the handler wrapped with withSecurityConfig(name) runs only for a
   request whose method is in securityConfigs[name].allowedMethods; the
   handler of the group reset does not run for GET *)
C39_MethodRestriction ==
  (/\ sec.part = "gate" /\ sec.pc # "idle"
   /\ Routes[sec.req.route] # "none"
   /\ sec.req.method
        \notin securityConfigs(sec.mw, Routes[sec.req.route]).allowedMethods)
    => ~sec.entered

(* the promises that settle do so *)
SpecGateFair == SpecGate /\ WF_vars(Settle)

(* C37: the promise the wrapped handler returns for a request, one answered
   429 included, settles *)
C37_WrappedHandlersTerminate ==
  (sec.part = "gate" /\ sec.pc = "pending") ~> (sec.pc = "settled")

-----------------------------------------------------------------------------
(* Session tracking: lib/security/session.js.  Time is counted in units of
   fifteen minutes.  The tracker is keyed by the subject of the Auth0
   session, so every session of one user shares one entry. *)

SESSION_CONFIG == [timeout |-> 2, maxDuration |-> 96, refreshThreshold |-> 1]

SessionUsers == {"sub1", "sub2"}

NoTracked == [present |-> FALSE, createdAt |-> 0, lastActivity |-> 0,
              loginTime |-> 0]

(* the condition under which getValidSession and cleanExpiredSessions drop
   an entry *)
SessionExpired(e, t) ==
  \/ t - e.lastActivity > SESSION_CONFIG.timeout
  \/ t - e.loginTime > SESSION_CONFIG.maxDuration

(* getValidSession(req, res) at time t; has tells whether getSession finds a
   session with a user, userId is its subject.  The result is the tracker
   afterwards and whether a session object (rather than null) is returned. *)
getValidSession(tracker, has, userId, t) ==
  IF ~has
  THEN [tracker |-> tracker, session |-> FALSE]
  ELSE IF ~tracker[userId].present
  THEN [tracker |-> [tracker EXCEPT ![userId] =
                       [present |-> TRUE, createdAt |-> t,
                        lastActivity |-> t, loginTime |-> t]],
        session |-> TRUE]
  ELSE IF SessionExpired(tracker[userId], t)
  THEN [tracker |-> [tracker EXCEPT ![userId] = NoTracked],
        session |-> FALSE]
  ELSE [tracker |-> [tracker EXCEPT ![userId].lastActivity = t],
        session |-> TRUE]

(* cleanExpiredSessions() at time t *)
cleanExpiredSessions(tracker, t) ==
  [u \in SessionUsers |->
     IF tracker[u].present /\ SessionExpired(tracker[u], t)
     THEN NoTracked ELSE tracker[u]]

(* the lengths of time that pass between two events *)
SessionWaits == {1, SESSION_CONFIG.timeout + 1, SESSION_CONFIG.maxDuration}

(* history of the underlying session of a user since its login: when a
   request carrying it was first seen and when one was last accepted *)
NoHistory == [seen |-> FALSE, firstSeen |-> 0, accepted |-> FALSE,
              lastAccepted |-> 0]

NoSessionAnswer == [seen |-> FALSE, user |-> "sub1", session |-> FALSE,
                    hadAccepted |-> FALSE, sinceAccepted |-> 0,
                    sinceFirst |-> 0, tracked |-> FALSE, sinceLogin |-> 0]

InitSession ==
  /\ variant = "I"
  /\ mem = [p \in Procs |-> InitMem]
  /\ files = [p \in Paths |-> Absent]
  /\ now = 1
  /\ env = [ticks |-> 0, tampers |-> 0]
  /\ tasks = [t \in Tasks |-> NoTask]
  /\ last = NoObs
  /\ sec = [part |-> "session", t |-> 0, waits |-> 0,
            tracker |-> [u \in SessionUsers |-> NoTracked],
            hist |-> [u \in SessionUsers |-> NoHistory],
            ans |-> NoSessionAnswer]

(* the state after getValidSession answered r to a request carrying the
   session of user u *)
Validated(u, r) ==
  [sec EXCEPT
     !.tracker = r.tracker,
     !.hist[u] =
        [seen |-> TRUE,
         firstSeen |-> IF sec.hist[u].seen THEN sec.hist[u].firstSeen
                       ELSE sec.t,
         accepted |-> sec.hist[u].accepted \/ r.session,
         lastAccepted |-> IF r.session THEN sec.t
                          ELSE sec.hist[u].lastAccepted],
     !.ans = [seen |-> TRUE, user |-> u, session |-> r.session,
              hadAccepted |-> sec.hist[u].accepted,
              sinceAccepted |-> IF sec.hist[u].accepted
                                THEN sec.t - sec.hist[u].lastAccepted ELSE 0,
              sinceFirst |-> IF sec.hist[u].seen
                             THEN sec.t - sec.hist[u].firstSeen ELSE 0,
              tracked |-> sec.tracker[u].present,
              sinceLogin |-> IF sec.tracker[u].present
                             THEN sec.t - sec.tracker[u].loginTime ELSE 0]]

(* a request reaches requireSession *)
SessionRequest ==
  \E u \in SessionUsers :
    /\ sec' = Validated(u, getValidSession(sec.tracker, TRUE, u, sec.t))
    /\ UNCHANGED <<variant, mem, files, now, env, tasks, last>>

(* a request without a session cookie *)
AnonymousRequest ==
  /\ sec.ans # NoSessionAnswer
  /\ sec' = [sec EXCEPT
               !.tracker = getValidSession(sec.tracker, FALSE, "sub1",
                                           sec.t).tracker,
               !.ans = NoSessionAnswer]
  /\ UNCHANGED <<variant, mem, files, now, env, tasks, last>>

(* the timer of setInterval(cleanExpiredSessions, ...) fires *)
CleanSessions ==
  /\ sec.tracker # cleanExpiredSessions(sec.tracker, sec.t)
  /\ sec' = [sec EXCEPT !.tracker = cleanExpiredSessions(sec.tracker, sec.t),
                        !.ans = NoSessionAnswer]
  /\ UNCHANGED <<variant, mem, files, now, env, tasks, last>>

(* the user logs in again: Auth0 issues a new session for the same subject,
   of which the tracker is not told *)
NewLogin ==
  \E u \in SessionUsers :
    /\ sec.hist[u].seen
    /\ sec' = [sec EXCEPT !.hist[u] = NoHistory, !.ans = NoSessionAnswer]
    /\ UNCHANGED <<variant, mem, files, now, env, tasks, last>>

(* Date.now() advances *)
Elapse ==
  \E d \in SessionWaits :
    /\ sec.waits < MaxWaits
    /\ sec' = [sec EXCEPT !.t = @ + d, !.waits = @ + 1,
                          !.ans = NoSessionAnswer]
    /\ UNCHANGED <<variant, mem, files, now, env, tasks, last>>

NextSession ==
  SessionRequest \/ AnonymousRequest \/ CleanSessions \/ NewLogin \/ Elapse

SpecSession == InitSession /\ [][NextSession]_vars

(* C38: a request is accepted by getValidSession only if no more than the
   inactivity timeout has passed since the last accepted request of the same
   underlying session, no more than the maximum duration since the tracked
   login time, and no more than the maximum duration since the session was
   first seen *)
C38_SessionTimeoutEnforced ==
  (sec.part = "session" /\ sec.ans.seen /\ sec.ans.session)
    => /\ sec.ans.hadAccepted
            => sec.ans.sinceAccepted <= SESSION_CONFIG.timeout
       /\ sec.ans.tracked
            => sec.ans.sinceLogin <= SESSION_CONFIG.maxDuration
       /\ sec.ans.sinceFirst <= SESSION_CONFIG.maxDuration

====
